---- MODULE Spec2Model ----
(***************************************************************************)
(* Domain building blocks of template-hono: the Result kernel, the         *)
(* Entity / AggregateRoot identity model and their operations, modelled    *)
(* from src/src/domain/building-blocks.                                    *)
(***************************************************************************)
EXTENDS Integers, Sequences, FiniteSets, TLC

VARIABLES
    heap,       \* the Result objects constructed so far; a reference is an index
    last,       \* the last Result operation: its inputs and its outcome
    promises,   \* combineAsync: what each pending computation will produce
    settled,    \* combineAsync: per input, the reference it resolved to (0: pending)
    resolved,   \* combineAsync: input indexes in the order they resolved
    apc,        \* combineAsync: "idle" | "awaiting" | "done"
    aret,       \* combineAsync: the reference the returned promise resolves to
    chain,      \* flatMap chain: the callbacks f1..fn
    cpc,        \* flatMap chain: number of flatMap calls made, -1 before the start
    start,      \* flatMap chain: the reference of the receiver r
    cur,        \* flatMap chain: the reference of the Result of the last call
    invoked,    \* flatMap chain: the callback invocations made so far
    agg,        \* the aggregate: alive, id, props, version, events
    commits,    \* number of markAsCommitted calls made
    replays,    \* number of events replayed by loadFromHistory
    alast,      \* the last aggregate operation: its inputs and its outcome
    handle,     \* the array external code holds from an accessor of the aggregate
    ents,       \* the entities constructed so far; a reference is an index
    elast,      \* the last entity operation: its inputs and its outcome
    vx,         \* the value object under test
    vlast,      \* the last value-object operation: its inputs and its outcome
    idin,       \* the string handed to an identifier factory
    idout,      \* what the identifier factory returned
    specs,      \* the Specification objects built so far; a reference is an index
    slast,      \* the last specification operation: its inputs and its outcome
    trio        \* three value objects compared with one another

resultVars == <<heap, last>>
asyncVars == <<promises, settled, resolved, apc, aret>>
chainVars == <<chain, cpc, start, cur, invoked>>
aggVars == <<agg, commits, replays, alast>>
aliasVars == <<handle>>
eqVars == <<ents, elast>>
voVars == <<vx, vlast>>
idVars == <<idin, idout>>
lateVars == <<specs, slast, trio>>
restVars == <<handle, ents, elast, vx, vlast, idin, idout, specs, slast, trio>>
vars == <<heap, last, promises, settled, resolved, apc, aret,
          chain, cpc, start, cur, invoked, agg, commits, replays, alast,
          handle, ents, elast, vx, vlast, idin, idout, specs, slast, trio>>

----------------------------------------------------------------------------
(* Bounds *)

MaxResults == 3     \* Result objects alive in one run
MaxList == 3        \* length of the list handed to combine
MaxPromises == 3    \* length of the list handed to combineAsync

----------------------------------------------------------------------------
(* JavaScript values *)

Undefined == "undefined"
NoFault == "none"

\* payloads given to ok()
Values == {Undefined, "a", "b"}
\* strings given to fail()
ErrorStrings == {"", "x", "y"}

\* `if (error)` / `!error` on a string-or-undefined
Truthy(s) == s # Undefined /\ s # ""

CtorSuccessWithError == "InvalidOperation: A result cannot be successful and contain an error"
CtorFailWithoutError == "InvalidOperation: A failing result needs to contain an error message"
GetValueOfError == "Can't get the value of an error result. Use 'errorValue' instead."

\* callbacks handed to map: value -> value
ValFns == {"same", "constA", "rotate", "toUndefined"}
ApplyVal(f, v) ==
    CASE f = "same" -> v
      [] f = "constA" -> "a"
      [] f = "rotate" -> (IF v = "a" THEN "b" ELSE IF v = "b" THEN Undefined ELSE "a")
      [] f = "toUndefined" -> Undefined

\* callbacks handed to mapError: string -> string
ErrFns == {"same", "constX", "swap", "empty"}
ApplyErr(f, e) ==
    CASE f = "same" -> e
      [] f = "constX" -> "x"
      [] f = "swap" -> (IF e = "x" THEN "y" ELSE "x")
      [] f = "empty" -> ""

----------------------------------------------------------------------------
(* Result *)

\* what a call leaves behind: the heap after it, the reference it returned
\* (0: none), the plain value it returned, the fault it raised, and the
\* arguments its callback was invoked with
Eff(h, ret, val, fault, calls) ==
    [heap |-> h, ret |-> ret, val |-> val, fault |-> fault, calls |-> calls]

Throw(h, msg) == Eff(h, 0, Undefined, msg, <<>>)

\* the constructor without its second guard
ResultCtor_noFailGuard(h, isSuccess, error, value) ==
    IF isSuccess /\ Truthy(error) THEN Throw(h, CtorSuccessWithError)
    ELSE Eff(Append(h, [isSuccess |-> isSuccess, isFailure |-> ~isSuccess,
                        error |-> error, value |-> value]),
             Len(h) + 1, Undefined, NoFault, <<>>)

\* private constructor(isSuccess, error?, value?)
ResultCtor(h, isSuccess, error, value) ==
    IF isSuccess /\ Truthy(error) THEN Throw(h, CtorSuccessWithError)
    ELSE IF ~isSuccess /\ ~Truthy(error) THEN Throw(h, CtorFailWithoutError)
    ELSE Eff(Append(h, [isSuccess |-> isSuccess, isFailure |-> ~isSuccess,
                        error |-> error, value |-> value]),
             Len(h) + 1, Undefined, NoFault, <<>>)

ok(h, value) == ResultCtor(h, TRUE, Undefined, value)

fail(h, error) == ResultCtor(h, FALSE, error, Undefined)

\* getValue without its guard
getValue_noGuard(h, r) == Eff(h, 0, h[r].value, NoFault, <<>>)

getValue(h, r) ==
    IF ~h[r].isSuccess THEN Throw(h, GetValueOfError)
    ELSE Eff(h, 0, h[r].value, NoFault, <<>>)

getErrorValue(h, r) == h[r].error

\* the reference of the first failure of the list, 0 when it has none
RECURSIVE FirstFailure(_, _)
FirstFailure(h, results) ==
    IF results = <<>> THEN 0
    ELSE IF h[Head(results)].isFailure THEN Head(results)
    ELSE FirstFailure(h, Tail(results))

\* combine returning the last failure of the list
combine_lastFailure(h, results) ==
    LET F == {i \in 1..Len(results) : h[results[i]].isFailure}
    IN  IF F # {}
        THEN Eff(h, results[CHOOSE i \in F : \A j \in F : j <= i], Undefined, NoFault, <<>>)
        ELSE ok(h, Undefined)

combine(h, results) ==
    IF FirstFailure(h, results) # 0
    THEN Eff(h, FirstFailure(h, results), Undefined, NoFault, <<>>)
    ELSE ok(h, Undefined)

\* map applying the callback whatever the receiver is
map_always(h, r, fn) ==
    LET v == h[r].value
        e == ok(h, ApplyVal(fn, v))
    IN  Eff(e.heap, e.ret, e.val, e.fault, <<v>>)

map(h, r, fn) ==
    IF h[r].isFailure
    THEN fail(h, getErrorValue(h, r))
    ELSE LET v == getValue(h, r).val
             e == ok(h, ApplyVal(fn, v))
         IN  Eff(e.heap, e.ret, e.val, e.fault, <<v>>)

\* mapError passing the error through without the callback
mapError_passThrough(h, r, fn) ==
    IF h[r].isSuccess
    THEN ok(h, h[r].value)
    ELSE fail(h, getErrorValue(h, r))

mapError(h, r, fn) ==
    IF h[r].isSuccess
    THEN ok(h, h[r].value)
    ELSE LET m == getErrorValue(h, r)
             e == fail(h, ApplyErr(fn, m))
         IN  Eff(e.heap, e.ret, e.val, e.fault, <<m>>)

----------------------------------------------------------------------------
(* Result operations as steps of a caller *)

Refs(h) == 1..Len(h)

RefLists(h) == UNION {[1..n -> Refs(h)] : n \in 0..MaxList}

Done(op, r, list, fn, arg, e) ==
    /\ heap' = e.heap
    /\ last' = [op |-> op, ref |-> r, list |-> list, fn |-> fn, arg |-> arg,
                ret |-> e.ret, val |-> e.val, fault |-> e.fault, calls |-> e.calls]
    /\ UNCHANGED <<asyncVars, chainVars, aggVars, restVars>>

Ok(v) ==
    /\ Len(heap) < MaxResults
    /\ Done("ok", 0, <<>>, "none", v, ok(heap, v))

Fail(s) ==
    /\ Len(heap) < MaxResults
    /\ Done("fail", 0, <<>>, "none", s, fail(heap, s))

GetValue(r) ==
    Done("getValue", r, <<>>, "none", Undefined, getValue(heap, r))

Combine(list) ==
    /\ Len(heap) < MaxResults \/ FirstFailure(heap, list) # 0
    /\ Done("combine", 0, list, "none", Undefined, combine(heap, list))

Map(r, fn) ==
    /\ Len(heap) < MaxResults
    /\ Done("map", r, <<>>, fn, Undefined, map(heap, r, fn))

MapError(r, fn) ==
    /\ Len(heap) < MaxResults
    /\ Done("mapError", r, <<>>, fn, Undefined, mapError(heap, r, fn))

NoOp == [op |-> "none", ref |-> 0, list |-> <<>>, fn |-> "none", arg |-> Undefined,
         ret |-> 0, val |-> Undefined, fault |-> NoFault, calls |-> <<>>]

NoAggregate == [alive |-> FALSE, id |-> Undefined, props |-> <<>>, version |-> 0, events |-> <<>>]

NoAggOp == [op |-> "none", arg |-> <<>>, pre |-> NoAggregate, ret |-> 0, val |-> <<>>,
            fault |-> NoFault]

\* a JavaScript value: its kind, its object identity (0 for a primitive), its
\* primitive content, its elements (an array) and its own properties as
\* <<key, value>> pairs (a record, the props of a value object)
JV(kind, oid, val, items, fields) ==
    [kind |-> kind, oid |-> oid, val |-> val, items |-> items, fields |-> fields]

UndefV == JV("undefined", 0, Undefined, <<>>, <<>>)

NoHandle == [kind |-> "none", items |-> <<>>]

NoEntityOp == [op |-> "none", self |-> 0, operand |-> [kind |-> "undefined", ref |-> 0, id |-> Undefined],
               val |-> FALSE, fault |-> NoFault]

NoVOOp == [op |-> "none", arg |-> UndefV, pre |-> UndefV, val |-> FALSE, ret |-> 0,
           fault |-> NoFault]

NoIdOut == [op |-> "none", ret |-> 0, fault |-> NoFault]

NoSpecOp == [op |-> "none", self |-> 0, arg |-> Undefined, ret |-> 0, val |-> FALSE,
             calls |-> <<>>, text |-> <<>>, pre |-> <<>>]

IdleLate == specs = <<>> /\ slast = NoSpecOp /\ trio = <<>>

IdleRest ==
    /\ handle = NoHandle
    /\ ents = <<>> /\ elast = NoEntityOp
    /\ vx = UndefV /\ vlast = NoVOOp
    /\ idin = <<>> /\ idout = NoIdOut
    /\ IdleLate

IdleResult == heap = <<>> /\ last = NoOp

IdleAsync ==
    promises = <<>> /\ settled = <<>> /\ resolved = <<>> /\ apc = "idle" /\ aret = 0

IdleChain == chain = <<>> /\ cpc = -1 /\ start = 0 /\ cur = 0 /\ invoked = <<>>

IdleAgg == agg = NoAggregate /\ commits = 0 /\ replays = 0 /\ alast = NoAggOp

InitResult == IdleResult /\ IdleAsync /\ IdleChain /\ IdleAgg /\ IdleRest

NextResult ==
    \/ \E v \in Values : Ok(v)
    \/ \E s \in ErrorStrings : Fail(s)
    \/ \E r \in Refs(heap) : GetValue(r)
    \/ \E list \in RefLists(heap) : Combine(list)
    \/ \E r \in Refs(heap), fn \in ValFns : Map(r, fn)
    \/ \E r \in Refs(heap), fn \in ErrFns : MapError(r, fn)

SpecResult == InitResult /\ [][NextResult]_vars

----------------------------------------------------------------------------
(* Properties of Result *)

\* Result objects are frozen: a step keeps every existing object as it is
Frozen == \A r \in Refs(heap) : r \in Refs(heap') /\ heap'[r] = heap[r]

\* the last call returned a reference to an object that exists
Returned == last.fault = NoFault /\ last.ret \in Refs(heap)

\* indexes of the failures in the list handed to the last combine
FailureIdx == {i \in 1..Len(last.list) : heap[last.list[i]].isFailure}

\* C1: combine returns the first failure of its list, as that same object,
\* whatever follows it; a list without a failure (the empty one too) gives a
\* success.
C1_CombineFirstFailure ==
    last.op = "combine" =>
        /\ Returned
        /\ FailureIdx # {} =>
              \E i \in FailureIdx :
                  /\ \A j \in FailureIdx : i <= j
                  /\ last.ret = last.list[i]
        /\ FailureIdx = {} => heap[last.ret].isSuccess

C1_Witness ==
    /\ last.op = "combine"
    /\ Len(last.list) = 3
    /\ FailureIdx = {2, 3}
    /\ heap[last.list[2]].error # heap[last.list[3]].error

C1_WitnessNoFailure ==
    last.op = "combine" /\ last.list # <<>> /\ FailureIdx = {}

\* C3 as stated: flags exclusive, exactly one of value / error populated,
\* a malformed construction yields no Result.
C3_ExactlyOnePopulated ==
    \A r \in Refs(heap) :
        /\ heap[r].isSuccess # heap[r].isFailure
        /\ (heap[r].value # Undefined) # (heap[r].error # Undefined)

C3_State ==
    /\ \A r \in Refs(heap) :
          /\ heap[r].isSuccess # heap[r].isFailure
          /\ heap[r].isSuccess => heap[r].error = Undefined
          /\ heap[r].isFailure => heap[r].value = Undefined /\ Truthy(heap[r].error)
    /\ (last.op = "fail" /\ ~Truthy(last.arg)) => last.fault # NoFault /\ last.ret = 0
    /\ last.ret = 0 \/ last.ret \in Refs(heap)

\* C3 (amended): flags are exclusive and fixed; a success carries no error,
\* a failure carries a non-empty error and no value (a success may carry no
\* value either); fail() with an empty error raises and yields no Result.
C3_ResultWellFormed == []C3_State /\ [][Frozen /\ (last'.fault # NoFault => heap' = heap)]_vars

C3_Witness ==
    /\ last.op = "fail" /\ last.arg = "" /\ last.fault = CtorFailWithoutError
    /\ \E r, q \in Refs(heap) : heap[r].isSuccess /\ heap[q].isFailure

\* C4: getValue raises on a failure and returns nothing; on a success it
\* returns the value given to ok() and raises nothing.
C4_GetValue ==
    /\ last.op = "ok" => Returned /\ heap[last.ret].isSuccess /\ heap[last.ret].value = last.arg
    /\ last.op = "getValue" =>
          IF heap[last.ref].isFailure
          THEN last.fault # NoFault /\ last.val = Undefined /\ last.ret = 0
          ELSE last.fault = NoFault /\ last.val = heap[last.ref].value

C4_Witness ==
    last.op = "getValue" /\ heap[last.ref].isFailure /\ last.fault = GetValueOfError

C4_WitnessSuccess ==
    last.op = "getValue" /\ heap[last.ref].isSuccess /\ last.val = "b"

C6_State ==
    last.op = "map" =>
        /\ Returned
        /\ heap[last.ref].isSuccess =>
              /\ heap[last.ret].isSuccess
              /\ heap[last.ret].value = ApplyVal(last.fn, heap[last.ref].value)
        /\ heap[last.ref].isFailure =>
              /\ heap[last.ret].isFailure
              /\ heap[last.ret].error = heap[last.ref].error
              /\ last.calls = <<>>

\* C6: map gives ok(f(v)) on a success with value v; on a failure it gives a
\* failure with the same error and never invokes f; the receiver is unchanged.
C6_Map == []C6_State /\ [][Frozen]_vars

C6_Witness ==
    /\ last.op = "map" /\ heap[last.ref].isFailure /\ last.fn = "constA"
    /\ heap[last.ret].error = "y" /\ last.ret # last.ref

C6_WitnessSuccess ==
    /\ last.op = "map" /\ heap[last.ref].isSuccess
    /\ heap[last.ret].value # heap[last.ref].value

MapErrorOnSuccess ==
    heap[last.ref].isSuccess =>
        /\ Returned
        /\ heap[last.ret].isSuccess
        /\ heap[last.ret].value = heap[last.ref].value
        /\ last.calls = <<>>

\* C7 as stated: on a failure mapError gives a failure carrying f(e) for every
\* string f(e), the empty one included, and raises nothing.
C7_MapErrorTotal ==
    last.op = "mapError" =>
        /\ MapErrorOnSuccess
        /\ heap[last.ref].isFailure =>
              /\ Returned
              /\ heap[last.ret].isFailure
              /\ heap[last.ret].error = ApplyErr(last.fn, heap[last.ref].error)

\* C7 (amended): on a success mapError gives a success with the same value and
\* never invokes f; on a failure with error e it gives a failure carrying f(e)
\* when f(e) is non-empty, and raises the constructor's fault, yielding no
\* Result, when f(e) is the empty string.
C7_MapError ==
    last.op = "mapError" =>
        /\ MapErrorOnSuccess
        /\ heap[last.ref].isFailure =>
              LET m == ApplyErr(last.fn, heap[last.ref].error)
              IN  IF m # ""
                  THEN Returned /\ heap[last.ret].isFailure /\ heap[last.ret].error = m
                  ELSE last.fault = CtorFailWithoutError /\ last.ret = 0

C7_Witness ==
    /\ last.op = "mapError" /\ heap[last.ref].isFailure /\ last.fn = "swap"
    /\ Returned /\ heap[last.ret].error # heap[last.ref].error

C7_WitnessEmpty ==
    /\ last.op = "mapError" /\ heap[last.ref].isFailure /\ last.fn = "empty"
    /\ last.fault = CtorFailWithoutError

----------------------------------------------------------------------------
(* Result.combineAsync *)

\* what a pending computation produces when it resolves
Outcomes == {[kind |-> "ok", payload |-> Undefined], [kind |-> "ok", payload |-> "a"],
             [kind |-> "fail", payload |-> "x"], [kind |-> "fail", payload |-> "y"]}

OutcomeLists == UNION {[1..n -> Outcomes] : n \in 0..MaxPromises}

Produce(h, o) == IF o.kind = "ok" THEN ok(h, o.payload) ELSE fail(h, o.payload)

\* Promise.all fulfilling with the values in resolution order
PromiseAll_resolutionOrder(refs, order) == [k \in 1..Len(order) |-> refs[order[k]]]

\* Promise.all: fulfilled once every input is, with the values in input order
PromiseAll(refs, order) == refs

\* Promise.all fulfilling as soon as one input has resolved
AllSettled_any(refs) == refs = <<>> \/ \E i \in 1..Len(refs) : refs[i] # 0

AllSettled(refs) == \A i \in 1..Len(refs) : refs[i] # 0

\* combineAsync(results) up to its await
CombineAsyncCall(list) ==
    /\ apc = "idle"
    /\ promises' = list
    /\ settled' = [i \in 1..Len(list) |-> 0]
    /\ apc' = "awaiting"
    /\ UNCHANGED <<resolved, aret, resultVars, chainVars, aggVars, restVars>>

\* one of the pending computations resolves to its Result
Resolve(i) ==
    /\ apc = "awaiting"
    /\ settled[i] = 0
    /\ LET e == Produce(heap, promises[i])
       IN  /\ heap' = e.heap
           /\ settled' = [settled EXCEPT ![i] = e.ret]
    /\ resolved' = Append(resolved, i)
    /\ UNCHANGED <<promises, apc, aret, last, chainVars, aggVars, restVars>>

\* the continuation after `await Promise.all(results)`: Result.combine
CombineAsyncResume ==
    /\ apc = "awaiting"
    /\ AllSettled(settled)
    /\ LET e == combine(heap, PromiseAll(settled, resolved))
       IN  /\ heap' = e.heap
           /\ aret' = e.ret
    /\ apc' = "done"
    /\ UNCHANGED <<promises, settled, resolved, last, chainVars, aggVars, restVars>>

InitAsync == IdleResult /\ IdleAsync /\ IdleChain /\ IdleAgg /\ IdleRest

NextAsync ==
    \/ \E list \in OutcomeLists : CombineAsyncCall(list)
    \/ \E i \in 1..Len(promises) : Resolve(i)
    \/ CombineAsyncResume

SpecAsync == InitAsync /\ [][NextAsync]_vars

\* input indexes whose computation resolved to a failure
FailedInputs == {i \in 1..Len(promises) : settled[i] # 0 /\ heap[settled[i]].isFailure}

\* C2: combineAsync produces its result only after every input has resolved,
\* and the result is the failure of the lowest input index, whatever the order
\* of resolution, or a success when no input failed.
C2_CombineAsync ==
    /\ aret # 0 => apc = "done"
    /\ apc = "done" =>
          /\ \A i \in 1..Len(promises) : settled[i] # 0
          /\ Len(resolved) = Len(promises)
          /\ aret \in Refs(heap)
          /\ FailedInputs # {} =>
                \E i \in FailedInputs :
                    /\ \A j \in FailedInputs : i <= j
                    /\ aret = settled[i]
                    /\ heap[aret].error = promises[i].payload
          /\ FailedInputs = {} => heap[aret].isSuccess

\* two inputs fail and the one of the higher index resolves first
C2_Witness ==
    /\ apc = "done"
    /\ Len(promises) = 3
    /\ FailedInputs = {2, 3}
    /\ resolved = <<3, 1, 2>>
    /\ promises[2].payload # promises[3].payload

----------------------------------------------------------------------------
(* Result.flatMap chains *)

MaxChain == 3       \* number of flatMap calls in a chain

\* callbacks handed to flatMap: value -> Result
FlatFns == {"okSame", "okB", "failX", "failY", "failOnA"}
ApplyFlat(h, f, v) ==
    CASE f = "okSame" -> ok(h, v)
      [] f = "okB" -> ok(h, "b")
      [] f = "failX" -> fail(h, "x")
      [] f = "failY" -> fail(h, "y")
      [] f = "failOnA" -> (IF v = "a" THEN fail(h, "y") ELSE ok(h, "a"))

\* flatMap invoking the callback whatever the receiver is
flatMap_always(h, r, fn) ==
    LET v == h[r].value
        e == ApplyFlat(h, fn, v)
    IN  Eff(e.heap, e.ret, e.val, e.fault, <<v>>)

flatMap(h, r, fn) ==
    IF h[r].isFailure
    THEN fail(h, getErrorValue(h, r))
    ELSE LET v == getValue(h, r).val
             e == ApplyFlat(h, fn, v)
         IN  Eff(e.heap, e.ret, e.val, e.fault, <<v>>)

Chains == UNION {[1..n -> FlatFns] : n \in 0..MaxChain}

\* the receiver r is made and the chain of callbacks chosen
ChainStart(o, fns) ==
    /\ cpc = -1
    /\ LET e == Produce(heap, o)
       IN  /\ heap' = e.heap
           /\ start' = e.ret
           /\ cur' = e.ret
    /\ chain' = fns
    /\ cpc' = 0
    /\ UNCHANGED <<invoked, last, asyncVars, aggVars, restVars>>

\* the next .flatMap(f) of the chain
FlatMapStep ==
    /\ cpc >= 0
    /\ cpc < Len(chain)
    /\ LET e == flatMap(heap, cur, chain[cpc + 1])
       IN  /\ heap' = e.heap
           /\ cur' = e.ret
           /\ invoked' = IF e.calls = <<>> THEN invoked
                         ELSE Append(invoked, [fn |-> cpc + 1, arg |-> e.calls[1], ret |-> e.ret])
    /\ cpc' = cpc + 1
    /\ UNCHANGED <<chain, start, last, asyncVars, aggVars, restVars>>

InitChain == IdleResult /\ IdleAsync /\ IdleChain /\ IdleAgg /\ IdleRest

NextChain ==
    \/ \E o \in Outcomes \cup {[kind |-> "ok", payload |-> "b"]}, fns \in Chains : ChainStart(o, fns)
    \/ FlatMapStep

SpecChain == InitChain /\ [][NextChain]_vars

\* invocations whose callback returned a failure
FailedCalls == {k \in 1..Len(invoked) : heap[invoked[k].ret].isFailure}

\* C5: in a flatMap chain the callbacks run in order and only while every
\* earlier step succeeded; after the first failure no callback runs and the
\* chain's Result is a failure with that error; without a failure the final
\* Result is the one fn returned.
C5_FlatMapChain ==
    cpc >= 0 =>
        /\ \A k \in 1..Len(invoked) :
              /\ invoked[k].fn = k
              /\ k <= cpc
              /\ LET prev == IF k = 1 THEN start ELSE invoked[k - 1].ret
                 IN  heap[prev].isSuccess /\ invoked[k].arg = heap[prev].value
        /\ heap[start].isFailure =>
              /\ invoked = <<>>
              /\ heap[cur].isFailure /\ heap[cur].error = heap[start].error
        /\ \A k \in FailedCalls :
              /\ Len(invoked) = k
              /\ heap[cur].isFailure /\ heap[cur].error = heap[invoked[k].ret].error
        /\ (heap[start].isSuccess /\ FailedCalls = {}) =>
              /\ Len(invoked) = cpc
              /\ cpc > 0 => cur = invoked[cpc].ret

\* the second callback fails and the third is never invoked
C5_Witness ==
    /\ cpc = 3 /\ Len(chain) = 3
    /\ Len(invoked) = 2
    /\ FailedCalls = {2}
    /\ heap[cur].error = "y"
    /\ chain[3] = "failX"

----------------------------------------------------------------------------
(* Entity and AggregateRoot, with a concrete aggregate whose validate asks   *)
(* for a non-empty name                                                      *)

MaxVersion == 3     \* cap of the version counter
MaxEvents == 3      \* cap of the length of the pending-event buffer
MaxHistory == 2     \* length of the list handed to loadFromHistory

Keys == {"name", "note"}
Names == {"", "ann", "bob"}
Notes == {"", "n"}
PropsSet == {p \in [Keys -> Names \cup Notes] : p["name"] \in Names /\ p["note"] \in Notes}
\* Partial<T>: any subset of the keys
Partials == {p \in UNION {[K -> Names \cup Notes] : K \in SUBSET Keys} :
                \A k \in DOMAIN p : p[k] \in (IF k = "name" THEN Names ELSE Notes)}
Ids == {"01A", "01B"}
DomainEvents == {"e1", "e2"}
Histories == UNION {[1..n -> DomainEvents] : n \in 0..MaxHistory}

NameRequired == "name is required"

\* { ...props, ...partial }
Spread(props, partial) ==
    [k \in DOMAIN props \cup DOMAIN partial |->
        IF k \in DOMAIN partial THEN partial[k] ELSE props[k]]

\* the subclass's validate(props)
validate(h, props) ==
    IF props["name"] = "" THEN fail(h, NameRequired) ELSE ok(h, Undefined)

\* what a call on the aggregate leaves behind
AggEff(a, e) == [agg |-> a, heap |-> e.heap, ret |-> e.ret, fault |-> e.fault]

\* the constructor without its validation guard
EntityCtor_noGuard(h, props, id, fresh) ==
    AggEff([alive |-> TRUE, id |-> IF id = Undefined THEN fresh ELSE id,
            props |-> props, version |-> 0, events |-> <<>>],
           Eff(validate(h, props).heap, 0, Undefined, NoFault, <<>>))

\* Entity constructor followed by the AggregateRoot field initialisers
EntityCtor(h, props, id, fresh) ==
    LET guardResult == validate(h, props)
    IN  IF guardResult.heap[guardResult.ret].isFailure
        THEN AggEff(NoAggregate, Throw(guardResult.heap, guardResult.heap[guardResult.ret].error))
        ELSE AggEff([alive |-> TRUE, id |-> IF id = Undefined THEN fresh ELSE id,
                     props |-> props, version |-> 0, events |-> <<>>],
                    Eff(guardResult.heap, 0, Undefined, NoFault, <<>>))

\* update assigning the merged props before it looks at the validation
update_assignFirst(h, a, partial) ==
    LET newProps == Spread(a.props, partial)
        validationResult == validate(h, newProps)
    IN  IF validationResult.heap[validationResult.ret].isFailure
        THEN AggEff([a EXCEPT !.props = newProps], validationResult)
        ELSE AggEff([a EXCEPT !.props = newProps], ok(validationResult.heap, Undefined))

\* Entity.update(props)
update(h, a, partial) ==
    LET newProps == Spread(a.props, partial)
        validationResult == validate(h, newProps)
    IN  IF validationResult.heap[validationResult.ret].isFailure
        THEN AggEff(a, validationResult)
        ELSE AggEff([a EXCEPT !.props = newProps], ok(validationResult.heap, Undefined))

\* addDomainEvent counting the event as a new version
addDomainEvent_bumpsVersion(a, ev) ==
    [a EXCEPT !.events = Append(@, ev), !.version = @ + 1]

addDomainEvent(a, ev) == [a EXCEPT !.events = Append(@, ev)]

\* _domainEvents.indexOf(ev), 1-based, 0 when absent
IndexOf(evs, ev) ==
    IF \E i \in 1..Len(evs) : evs[i] = ev
    THEN CHOOSE i \in 1..Len(evs) : evs[i] = ev /\ \A j \in 1..(i - 1) : evs[j] # ev
    ELSE 0

\* removeDomainEvent cutting the buffer at the event
removeDomainEvent_dropsTail(a, ev) ==
    LET index == IndexOf(a.events, ev)
    IN  IF index > 0
        THEN [a EXCEPT !.events = SubSeq(@, 1, index - 1)]
        ELSE a

removeDomainEvent(a, ev) ==
    LET index == IndexOf(a.events, ev)
    IN  IF index > 0
        THEN [a EXCEPT !.events = SubSeq(@, 1, index - 1) \o SubSeq(@, index + 1, Len(@))]
        ELSE a

clearEvents(a) == [a EXCEPT !.events = <<>>]

\* markAsCommitted advancing the version once per pending event
markAsCommitted_perEvent(a) == clearEvents([a EXCEPT !.version = @ + Len(a.events)])

markAsCommitted(a) == clearEvents([a EXCEPT !.version = @ + 1])

hasUncommittedEvents(a) == Len(a.events) > 0

\* getUncommittedEvents handing out the newest event first
getUncommittedEvents_newestFirst(a) ==
    [i \in 1..Len(a.events) |-> a.events[Len(a.events) + 1 - i]]

getUncommittedEvents(a) == a.events

\* the default apply hook
apply(a, ev) == a

\* the replay loop counting the call, not the events
RECURSIVE replay_oncePerCall(_, _, _)
replay_oncePerCall(a, events, calls) ==
    IF events = <<>> THEN [agg |-> a, calls |-> calls]
    ELSE LET r == replay_oncePerCall(apply(a, Head(events)), Tail(events),
                                     Append(calls, Head(events)))
         IN  IF calls = <<>> THEN [agg |-> [r.agg EXCEPT !.version = @ + 1], calls |-> r.calls]
             ELSE r

\* the loop of loadFromHistory: apply(event), then _version++; calls is the
\* list of the events the apply hook has been invoked with
RECURSIVE replay(_, _, _)
replay(a, events, calls) ==
    IF events = <<>> THEN [agg |-> a, calls |-> calls]
    ELSE replay([apply(a, Head(events)) EXCEPT !.version = @ + 1], Tail(events),
                Append(calls, Head(events)))

loadFromHistory(a, events) == replay(a, events, <<>>).agg

----------------------------------------------------------------------------
(* Aggregate operations as steps of a caller *)

AggDone(op, arg, a, h, ret, val, fault) ==
    /\ agg' = a
    /\ heap' = h
    /\ alast' = [op |-> op, arg |-> arg, pre |-> agg, ret |-> ret, val |-> val, fault |-> fault]
    /\ UNCHANGED <<last, asyncVars, chainVars, restVars>>

Construct(props, id, fresh) ==
    /\ ~agg.alive
    /\ LET e == EntityCtor(<<>>, props, id, fresh)
       IN  AggDone("new", props, e.agg, e.heap, e.ret, <<>>, e.fault)
    /\ UNCHANGED <<commits, replays>>

Update(partial) ==
    /\ agg.alive
    /\ LET e == update(<<>>, agg, partial)
       IN  AggDone("update", partial, e.agg, e.heap, e.ret, <<>>, e.fault)
    /\ UNCHANGED <<commits, replays>>

AddDomainEvent(ev) ==
    /\ agg.alive
    /\ Len(agg.events) < MaxEvents
    /\ AggDone("addDomainEvent", ev, addDomainEvent(agg, ev), heap, 0, <<>>, NoFault)
    /\ UNCHANGED <<commits, replays>>

RemoveDomainEvent(ev) ==
    /\ agg.alive
    /\ AggDone("removeDomainEvent", ev, removeDomainEvent(agg, ev), heap, 0, <<>>, NoFault)
    /\ UNCHANGED <<commits, replays>>

ClearEvents ==
    /\ agg.alive
    /\ AggDone("clearEvents", <<>>, clearEvents(agg), heap, 0, <<>>, NoFault)
    /\ UNCHANGED <<commits, replays>>

MarkAsCommitted ==
    /\ agg.alive
    /\ agg.version < MaxVersion
    /\ AggDone("markAsCommitted", <<>>, markAsCommitted(agg), heap, 0, <<>>, NoFault)
    /\ commits' = commits + 1
    /\ UNCHANGED replays

HasUncommittedEvents ==
    /\ agg.alive
    /\ AggDone("hasUncommittedEvents", <<>>, agg, heap, 0, hasUncommittedEvents(agg), NoFault)
    /\ UNCHANGED <<commits, replays>>

GetUncommittedEvents ==
    /\ agg.alive
    /\ AggDone("getUncommittedEvents", <<>>, agg, heap, 0, getUncommittedEvents(agg), NoFault)
    /\ UNCHANGED <<commits, replays>>

LoadFromHistory(events) ==
    /\ agg.alive
    /\ agg.version + Len(events) <= MaxVersion
    /\ AggDone("loadFromHistory", events, loadFromHistory(agg, events), heap, 0,
               replay(agg, events, <<>>).calls, NoFault)
    /\ replays' = replays + Len(events)
    /\ UNCHANGED commits

InitAgg == IdleResult /\ IdleAsync /\ IdleChain /\ IdleAgg /\ IdleRest

NextAgg ==
    \/ \E props \in PropsSet, id \in Ids \cup {Undefined}, fresh \in Ids : Construct(props, id, fresh)
    \/ \E partial \in Partials : Update(partial)
    \/ \E ev \in DomainEvents : AddDomainEvent(ev)
    \/ \E ev \in DomainEvents : RemoveDomainEvent(ev)
    \/ ClearEvents
    \/ MarkAsCommitted
    \/ HasUncommittedEvents
    \/ GetUncommittedEvents
    \/ \E events \in Histories : LoadFromHistory(events)

SpecAgg == InitAgg /\ [][NextAgg]_vars

----------------------------------------------------------------------------
(* Properties of AggregateRoot and Entity *)

\* C8: markAsCommitted leaves the event buffer empty and the version exactly
\* one above what it was, however many events were pending, and keeps id and
\* props.
C8_MarkAsCommitted ==
    alast.op = "markAsCommitted" =>
        /\ agg.events = <<>>
        /\ agg.version = alast.pre.version + 1
        /\ agg.id = alast.pre.id
        /\ agg.props = alast.pre.props
        /\ agg.alive

\* three events were pending at the commit
C8_Witness ==
    /\ alast.op = "markAsCommitted"
    /\ Len(alast.pre.events) = 3
    /\ alast.pre.version = 1
    /\ agg.version = 2

C8_WitnessNoEvents ==
    alast.op = "markAsCommitted" /\ alast.pre.events = <<>> /\ agg.version = 1

\* C9: the version starts at 0 and only markAsCommitted changes it in a run
\* without replay, so it equals the number of markAsCommitted calls.
C9_VersionCountsCommits ==
    /\ (alast.op = "new" /\ agg.alive) => agg.version = 0
    /\ alast.op \notin {"markAsCommitted", "loadFromHistory"} => agg.version = alast.pre.version
    /\ replays = 0 => agg.version = commits

C9_Witness ==
    /\ replays = 0
    /\ commits = 2
    /\ alast.op = "addDomainEvent"
    /\ Len(agg.events) = 2
    /\ agg.version = 2

\* C10: an update whose merged props fail validate returns a failure Result,
\* raises nothing, and leaves id, props, version and event buffer as they
\* were.
C10_RejectedUpdate ==
    (alast.op = "update" /\ Spread(alast.pre.props, alast.arg)["name"] = "") =>
        /\ alast.fault = NoFault
        /\ alast.ret \in Refs(heap)
        /\ heap[alast.ret].isFailure
        /\ agg.id = alast.pre.id
        /\ agg.props = alast.pre.props
        /\ agg.version = alast.pre.version
        /\ agg.events = alast.pre.events

\* a rejected update that also carried an acceptable field
C10_Witness ==
    /\ alast.op = "update"
    /\ DOMAIN alast.arg = Keys
    /\ alast.arg["name"] = ""
    /\ alast.arg["note"] # alast.pre.props["note"]
    /\ agg.events # <<>>
    /\ agg.version > 0

\* C11: in every state the entity's props satisfy validate and its id is the
\* one it had at construction; a construction whose props fail validate
\* raises and leaves no entity.
C11_EntityValid ==
    /\ agg.alive => validate(<<>>, agg.props).heap[1].isSuccess
    /\ (agg.alive /\ alast.pre.alive) => agg.id = alast.pre.id
    /\ alast.op = "new" =>
          IF alast.arg["name"] = ""
          THEN ~agg.alive /\ alast.fault = NameRequired
          ELSE agg.alive /\ agg.id \in Ids /\ agg.props = alast.arg /\ alast.fault = NoFault

\* a rejected update after an accepted one
C11_Witness ==
    /\ alast.op = "update"
    /\ heap[alast.ret].isFailure
    /\ agg.props["name"] = "bob"
    /\ agg.props["note"] = "n"

C11_WitnessRejectedNew ==
    alast.op = "new" /\ ~agg.alive /\ alast.fault = NameRequired

\* C15: hasUncommittedEvents and getUncommittedEvents change nothing of the
\* aggregate; the first is true exactly when the buffer is non-empty, the
\* second returns the buffered events in the order they were added.
C15_Observers ==
    /\ alast.op = "hasUncommittedEvents" =>
          agg = alast.pre /\ (alast.val <=> Len(alast.pre.events) > 0)
    /\ alast.op = "getUncommittedEvents" =>
          agg = alast.pre /\ alast.val = alast.pre.events
    /\ alast.op = "addDomainEvent" => agg.events = alast.pre.events \o <<alast.arg>>

C15_Witness ==
    /\ alast.op = "getUncommittedEvents"
    /\ alast.val = <<"e2", "e1", "e2">>

C15_WitnessHas ==
    alast.op = "hasUncommittedEvents" /\ alast.val = FALSE /\ agg.version > 0

\* C16: loadFromHistory invokes the apply hook once per event, in order, and
\* ends with the version raised by the number of events; the pending-event
\* buffer, id and props are untouched and an empty history changes nothing.
C16_LoadFromHistory ==
    alast.op = "loadFromHistory" =>
        /\ alast.val = alast.arg
        /\ agg.version = alast.pre.version + Len(alast.arg)
        /\ agg.events = alast.pre.events
        /\ agg.id = alast.pre.id /\ agg.props = alast.pre.props
        /\ alast.arg = <<>> => agg = alast.pre

C16_Witness ==
    /\ alast.op = "loadFromHistory"
    /\ alast.arg = <<"e2", "e1">>
    /\ alast.pre.version = 1
    /\ agg.version = 3
    /\ agg.events # <<>>

C16_WitnessEmpty ==
    alast.op = "loadFromHistory" /\ alast.arg = <<>> /\ agg.events # <<>> /\ agg.version = 2

----------------------------------------------------------------------------
(* The arrays an aggregate hands out, in the hands of external code *)

\* get domainEvents(): `return this._domainEvents`, the internal array itself
domainEvents(a) == [kind |-> "live", items |-> <<>>]

\* getUncommittedEvents(): `[...this._domainEvents]`, a new array
UncommittedCopy(a) == [kind |-> "array", items |-> getUncommittedEvents(a)]

\* the elements of the array a handle refers to
Contents(hd, a) == IF hd.kind = "live" THEN a.events ELSE hd.items

\* `this._domainEvents = []` leaves a handle on the old array with that array
Reassigned(hd, a) ==
    IF hd.kind = "live" THEN [kind |-> "array", items |-> a.events] ELSE hd

\* a write through the handle lands in the array the handle refers to
WrittenAgg(hd, a, items) == IF hd.kind = "live" THEN [a EXCEPT !.events = items] ELSE a
WrittenHandle(hd, items) == IF hd.kind = "live" THEN hd ELSE [hd EXCEPT !.items = items]

AliasDone(op, arg, a, hd, val) ==
    /\ agg' = a
    /\ handle' = hd
    /\ alast' = [op |-> op, arg |-> arg, pre |-> agg, ret |-> 0, val |-> val, fault |-> NoFault]
    /\ UNCHANGED <<resultVars, asyncVars, chainVars, replays, eqVars, voVars, idVars, lateVars>>

ReadDomainEvents ==
    /\ AliasDone("domainEvents", <<>>, agg, domainEvents(agg), <<>>)
    /\ UNCHANGED commits

ReadUncommittedEvents ==
    /\ AliasDone("getUncommittedEvents", <<>>, agg, UncommittedCopy(agg), getUncommittedEvents(agg))
    /\ UNCHANGED commits

OwnAddDomainEvent(ev) ==
    /\ Len(agg.events) < MaxEvents
    /\ AliasDone("addDomainEvent", ev, addDomainEvent(agg, ev), handle, <<>>)
    /\ UNCHANGED commits

OwnClearEvents ==
    /\ AliasDone("clearEvents", <<>>, clearEvents(agg), Reassigned(handle, agg), <<>>)
    /\ UNCHANGED commits

OwnMarkAsCommitted ==
    /\ agg.version < MaxVersion
    /\ AliasDone("markAsCommitted", <<>>, markAsCommitted(agg), Reassigned(handle, agg), <<>>)
    /\ commits' = commits + 1

\* external code: (view as DomainEvent[]).push(ev)
ExternalPush(ev) ==
    /\ handle.kind # "none"
    /\ Len(Contents(handle, agg)) < MaxEvents
    /\ LET items == Append(Contents(handle, agg), ev)
       IN  AliasDone("external push", ev, WrittenAgg(handle, agg, items),
                     WrittenHandle(handle, items), <<>>)
    /\ UNCHANGED commits

\* external code: (view as DomainEvent[]).pop()
ExternalPop ==
    /\ handle.kind # "none"
    /\ Contents(handle, agg) # <<>>
    /\ LET c == Contents(handle, agg)
           items == SubSeq(c, 1, Len(c) - 1)
       IN  AliasDone("external pop", <<>>, WrittenAgg(handle, agg, items),
                     WrittenHandle(handle, items), <<>>)
    /\ UNCHANGED commits

\* external code: (view as DomainEvent[]).length = 0
ExternalEmpty ==
    /\ handle.kind # "none"
    /\ AliasDone("external empty", <<>>, WrittenAgg(handle, agg, <<>>),
                 WrittenHandle(handle, <<>>), <<>>)
    /\ UNCHANGED commits

InitAlias ==
    /\ IdleResult /\ IdleAsync /\ IdleChain /\ IdleRest
    /\ agg = EntityCtor(<<>>, [name |-> "ann", note |-> ""], Undefined, "01A").agg
    /\ commits = 0 /\ replays = 0 /\ alast = NoAggOp

NextAlias ==
    \/ ReadDomainEvents
    \/ ReadUncommittedEvents
    \/ \E ev \in DomainEvents : OwnAddDomainEvent(ev)
    \/ OwnClearEvents
    \/ OwnMarkAsCommitted
    \/ \E ev \in DomainEvents : ExternalPush(ev)
    \/ ExternalPop
    \/ ExternalEmpty

SpecAlias == InitAlias /\ [][NextAlias]_vars

ExternalOps == {"external push", "external pop", "external empty"}

\* C14: nothing external code does with an array returned by the
\* domainEvents accessor or by getUncommittedEvents() changes the version or
\* what hasUncommittedEvents() and getUncommittedEvents() report.
C14_NoExternalMutation ==
    alast.op \in ExternalOps =>
        /\ hasUncommittedEvents(agg) = hasUncommittedEvents(alast.pre)
        /\ getUncommittedEvents(agg) = getUncommittedEvents(alast.pre)
        /\ agg.version = alast.pre.version

\* what does hold: writes through a copy from getUncommittedEvents(), or
\* through an array the aggregate has since replaced, do not reach the buffer
C14_CopiesAreDetached ==
    (alast.op \in ExternalOps /\ handle.kind = "array") => agg = alast.pre

----------------------------------------------------------------------------
(* Entity.equals over entities of two unrelated concrete classes *)

MaxEntities == 2    \* entities alive in one run

\* two concrete subclasses of Entity, neither extending the other
ConcreteTypes == {"Customer", "Order"}

\* what equals() can be handed: null, undefined, an entity, or an object that
\* is no Entity but has an _id
Operands(es) ==
    {[kind |-> "null", ref |-> 0, id |-> Undefined], [kind |-> "undefined", ref |-> 0, id |-> Undefined]}
    \cup {[kind |-> "entity", ref |-> j, id |-> Undefined] : j \in 1..Len(es)}
    \cup {[kind |-> "plain", ref |-> 0, id |-> i] : i \in Ids}

\* object._id
OperandId(es, o) == IF o.kind = "entity" THEN es[o.ref].id ELSE o.id

\* equals comparing the props as well
equals_byProps(es, self, o) ==
    IF o.kind \in {"null", "undefined"} THEN FALSE
    ELSE IF o.kind = "entity" /\ o.ref = self THEN TRUE
    ELSE IF o.kind # "entity" THEN FALSE
    ELSE es[self].id = OperandId(es, o) /\ es[self].props = es[o.ref].props

\* equals without the instanceof test
equals_noInstanceof(es, self, o) ==
    IF o.kind \in {"null", "undefined"} THEN FALSE
    ELSE IF o.kind = "entity" /\ o.ref = self THEN TRUE
    ELSE es[self].id = OperandId(es, o)

\* Entity.equals(object)
equals(es, self, o) ==
    IF o.kind \in {"null", "undefined"} THEN FALSE
    ELSE IF o.kind = "entity" /\ o.ref = self THEN TRUE
    ELSE IF o.kind # "entity" THEN FALSE
    ELSE es[self].id = OperandId(es, o)

\* the Entity part of an object of either class
AsEntity(e) == [alive |-> TRUE, id |-> e.id, props |-> e.props, version |-> 0, events |-> <<>>]

EntityDone(op, self, o, es, h, val, fault) ==
    /\ ents' = es
    /\ heap' = h
    /\ elast' = [op |-> op, self |-> self, operand |-> o, val |-> val, fault |-> fault]
    /\ UNCHANGED <<last, asyncVars, chainVars, aggVars, aliasVars, voVars, idVars, lateVars>>

NewEntity(t, props, id, fresh) ==
    /\ Len(ents) < MaxEntities
    /\ LET e == EntityCtor(<<>>, props, id, fresh)
       IN  EntityDone("new", 0, NoEntityOp.operand,
                      IF e.fault = NoFault
                      THEN Append(ents, [type |-> t, id |-> e.agg.id, props |-> e.agg.props])
                      ELSE ents,
                      e.heap, FALSE, e.fault)

UpdateEntity(i, partial) ==
    LET e == update(<<>>, AsEntity(ents[i]), partial)
    IN  EntityDone("update", i, NoEntityOp.operand,
                   [ents EXCEPT ![i].props = e.agg.props], e.heap,
                   e.heap[e.ret].isSuccess, e.fault)

Equals(i, o) ==
    EntityDone("equals", i, o, ents, heap, equals(ents, i, o), NoFault)

InitEq == IdleResult /\ IdleAsync /\ IdleChain /\ IdleAgg /\ IdleRest

NextEq ==
    \/ \E t \in ConcreteTypes, props \in PropsSet, id \in Ids \cup {Undefined}, fresh \in Ids :
          NewEntity(t, props, id, fresh)
    \/ \E i \in 1..Len(ents), partial \in Partials : UpdateEntity(i, partial)
    \/ \E i \in 1..Len(ents), o \in Operands(ents) : Equals(i, o)

SpecEq == InitEq /\ [][NextEq]_vars

\* the last call compared two distinct entity objects
ComparedEntities ==
    elast.op = "equals" /\ elast.operand.kind = "entity" /\ elast.operand.ref # elast.self

\* C12 as stated: entities of unrelated concrete types are never reported
\* equal, whatever their identifiers.
C12_UnrelatedNeverEqual ==
    (ComparedEntities /\ ents[elast.self].type # ents[elast.operand.ref].type) => ~elast.val

\* C12 (amended): equals only verifies that the operand is an Entity of any
\* concrete class: an object that is no Entity is never equal, and entities
\* of unrelated classes are equal exactly when their identifiers are the same.
C12_AnyEntitySameId ==
    /\ (elast.op = "equals" /\ elast.operand.kind = "plain") => ~elast.val
    /\ (ComparedEntities /\ ents[elast.self].type # ents[elast.operand.ref].type) =>
          (elast.val <=> ents[elast.self].id = ents[elast.operand.ref].id)

\* a Customer and an Order with the same identifier are reported equal
C12_Witness ==
    /\ ComparedEntities
    /\ ents[elast.self].type = "Customer"
    /\ ents[elast.operand.ref].type = "Order"
    /\ ents[elast.self].id = ents[elast.operand.ref].id
    /\ elast.val

C12_WitnessPlain ==
    /\ elast.op = "equals" /\ elast.operand.kind = "plain"
    /\ elast.operand.id = ents[elast.self].id

\* C13: two entities of the same concrete type are equal exactly when their
\* ids are, whatever their props; an entity equals itself and never null or
\* undefined.
C13_EqualsById ==
    elast.op = "equals" =>
        /\ (ComparedEntities /\ ents[elast.self].type = ents[elast.operand.ref].type) =>
              (elast.val <=> ents[elast.self].id = ents[elast.operand.ref].id)
        /\ (elast.operand.kind = "entity" /\ elast.operand.ref = elast.self) => elast.val
        /\ elast.operand.kind \in {"null", "undefined"} => ~elast.val

\* same type, same id, different props
C13_Witness ==
    /\ ComparedEntities
    /\ ents[elast.self].type = ents[elast.operand.ref].type
    /\ ents[elast.self].id = ents[elast.operand.ref].id
    /\ ents[elast.self].props # ents[elast.operand.ref].props
    /\ elast.val

C13_WitnessDifferentId ==
    /\ ComparedEntities
    /\ ents[elast.self].type = ents[elast.operand.ref].type
    /\ ents[elast.self].props = ents[elast.operand.ref].props
    /\ ~elast.val

----------------------------------------------------------------------------
(* ValueObject, with a concrete class Sample whose props are                 *)
(* { x?: any; y?: string } and whose validate rejects an empty y, and a      *)
(* nested class Tag whose props are { value: string }                        *)

MaxItems == 1       \* length of an array held in a property

Str(t) == JV("string", 0, t, <<>>, <<>>)
NullV == JV("null", 0, "null", <<>>, <<>>)
\* new Date(t): an object of its own with an instant
DateV(oid, t) == JV("date", oid, t, <<>>, <<>>)
\* an instance of a value-object class: val is the class, fields its props
VO(class, oid, fields) == JV("vo", oid, class, <<>>, fields)
ArrayV(items) == JV("array", 0, Undefined, items, <<>>)
RecordV(fields) == JV("record", 0, Undefined, <<>>, fields)

Prims == {UndefV, Str("p"), Str("q")}
\* two Date objects of one instant and one of another
Dates == {DateV(1, "t1"), DateV(2, "t1"), DateV(3, "t2")}
\* two Tag instances with equal props and one with other props
Tags == {VO("Tag", 4, << <<"value", Str("p")>> >>), VO("Tag", 5, << <<"value", Str("p")>> >>),
         VO("Tag", 6, << <<"value", Str("q")>> >>)}
Leaves == Prims \cup Dates \cup Tags
ArrayElems == {Str("p"), DateV(1, "t1"), VO("Tag", 4, << <<"value", Str("p")>> >>),
               VO("Tag", 5, << <<"value", Str("p")>> >>)}
Arrays == {ArrayV(items) : items \in UNION {[1..n -> ArrayElems] : n \in 0..MaxItems}}
Records == {RecordV(<<>>)} \cup {RecordV(<< <<"m", l>> >>) : l \in Leaves}
PropValues == Leaves \cup Arrays \cup Records

\* the props a Sample can be built from
YValues == {UndefV, Str("p"), Str("")}
SampleFields ==
    {<<>>}
    \cup {<< <<"x", v>> >> : v \in PropValues}
    \cup {<< <<"y", w>> >> : w \in YValues}
    \cup {<< <<"x", v>>, <<"y", w>> >> : v \in PropValues, w \in YValues}

\* the Partial<props> handed to copyWith
PartialFields ==
    {f \in SampleFields : \A i \in 1..Len(f) : f[i][1] = "x" => f[i][2] \in Leaves}

YRequired == "y must not be empty"

\* obj[key] for the keys of Object.keys(obj)
FieldKeys(fields) == {fields[i][1] : i \in 1..Len(fields)}
FieldGet(fields, k) ==
    IF k \in FieldKeys(fields)
    THEN fields[CHOOSE i \in 1..Len(fields) : fields[i][1] = k][2]
    ELSE UndefV

IndexKeys == <<"0", "1", "2", "3">>

\* typeof v === 'object' && v !== null
IsObject(v) == v.kind \in {"date", "vo", "array", "record"}

\* Object.keys(v) of an object
OwnKeys(v) ==
    CASE v.kind = "record" -> FieldKeys(v.fields)
      [] v.kind = "vo" -> {"props"}
      [] v.kind = "array" -> {IndexKeys[i] : i \in 1..Len(v.items)}
      [] OTHER -> {}

\* v[k]
Get(v, k) ==
    CASE v.kind = "record" -> FieldGet(v.fields, k)
      [] v.kind = "vo" -> (IF k = "props" THEN RecordV(v.fields) ELSE UndefV)
      [] v.kind = "array" ->
            (IF \E i \in 1..Len(v.items) : IndexKeys[i] = k
             THEN v.items[CHOOSE i \in 1..Len(v.items) : IndexKeys[i] = k]
             ELSE UndefV)
      [] OTHER -> UndefV

\* the number NaN
NaNV == JV("number", 0, "NaN", <<>>, <<>>)

\* v === w: objects by identity, primitives by value, NaN equal to nothing
StrictEq(v, w) ==
    IF IsObject(v) \/ IsObject(w)
    THEN IsObject(v) /\ IsObject(w) /\ v.oid # 0 /\ v.oid = w.oid
    ELSE v.kind = w.kind /\ v.val = w.val /\ v # NaNV

RECURSIVE shallowEqual(_, _)
RECURSIVE arrayEquals(_, _)
RECURSIVE voEquals(_, _)

\* ValueObject.equals(valueObject)
voEquals(a, b) ==
    IF b.kind \in {"null", "undefined"} THEN FALSE
    ELSE IF b.kind # "vo" THEN FALSE
    ELSE shallowEqual(RecordV(a.fields), RecordV(b.fields))

\* ValueObject.shallowEqual(obj1, obj2)
shallowEqual(obj1, obj2) ==
    IF Cardinality(OwnKeys(obj1)) # Cardinality(OwnKeys(obj2)) THEN FALSE
    ELSE \A key \in OwnKeys(obj1) :
            LET val1 == Get(obj1, key)
                val2 == Get(obj2, key)
            IN  IF val1.kind = "date" /\ val2.kind = "date" THEN val1.val = val2.val
                ELSE IF val1.kind = "vo" /\ val2.kind = "vo" THEN voEquals(val1, val2)
                ELSE IF val1.kind = "array" /\ val2.kind = "array" THEN arrayEquals(val1, val2)
                ELSE IF IsObject(val1) /\ IsObject(val2) THEN shallowEqual(val1, val2)
                ELSE StrictEq(val1, val2)

\* ValueObject.arrayEquals(arr1, arr2)
arrayEquals(arr1, arr2) ==
    IF Len(arr1.items) # Len(arr2.items) THEN FALSE
    ELSE \A i \in 1..Len(arr1.items) :
            IF arr1.items[i].kind = "vo" /\ arr2.items[i].kind = "vo"
            THEN voEquals(arr1.items[i], arr2.items[i])
            ELSE StrictEq(arr1.items[i], arr2.items[i])

\* Sample.validate(props)
voValidate(h, fields) ==
    IF FieldGet(fields, "y") = Str("") THEN fail(h, YRequired) ELSE ok(h, UndefV)

\* what a call on a value object leaves behind
VOEff(self, obj, e) ==
    [self |-> self, obj |-> obj, heap |-> e.heap, ret |-> e.ret, fault |-> e.fault]

\* ValueObject constructor as run by `new class(props)`; oid is the identity
\* of the object under construction
ValueObjectCtor(h, class, fields, oid) ==
    LET guardResult == voValidate(h, fields)
    IN  IF guardResult.heap[guardResult.ret].isFailure
        THEN VOEff(UndefV, UndefV, Throw(guardResult.heap, guardResult.heap[guardResult.ret].error))
        ELSE VOEff(UndefV, VO(class, oid, fields),
                   Eff(guardResult.heap, 0, Undefined, NoFault, <<>>))

\* { ...props, ...partial }: the keys of props in their order, overridden by
\* partial, then the keys only partial has
SpreadFields(props, partial) ==
    [i \in 1..Len(props) |->
        <<props[i][1], IF props[i][1] \in FieldKeys(partial)
                       THEN FieldGet(partial, props[i][1]) ELSE props[i][2]>>]
    \o SelectSeq(partial, LAMBDA pr : pr[1] \notin FieldKeys(props))

\* copyWith without its try/catch
copyWith_noCatch(h, x, props, oid) ==
    LET newProps == SpreadFields(x.fields, props)
        made == ValueObjectCtor(h, x.val, newProps, oid)
    IN  IF made.fault = NoFault
        THEN VOEff(x, made.obj, ok(made.heap, made.obj))
        ELSE VOEff(x, UndefV, Throw(made.heap, made.fault))

\* ValueObject.copyWith(props) on x
copyWith(h, x, props, oid) ==
    LET newProps == SpreadFields(x.fields, props)
        made == ValueObjectCtor(h, x.val, newProps, oid)
    IN  IF made.fault = NoFault
        THEN VOEff(x, made.obj, ok(made.heap, made.obj))
        ELSE VOEff(x, UndefV, fail(made.heap, made.fault))

VODone(op, arg, x, h, val, ret, fault) ==
    /\ vx' = x
    /\ heap' = h
    /\ vlast' = [op |-> op, arg |-> arg, pre |-> vx, val |-> val, ret |-> ret, fault |-> fault]
    /\ UNCHANGED <<last, asyncVars, chainVars, aggVars, aliasVars, eqVars, idVars, lateVars>>

NewSample(fields) ==
    /\ vx = UndefV
    /\ LET e == ValueObjectCtor(<<>>, "Sample", fields, 10)
       IN  VODone("new", RecordV(fields), e.obj, e.heap, FALSE, e.ret, e.fault)

\* the value objects x can be compared with: itself, another Sample, and
\* what `valueObject?` admits
Others(x) ==
    {x, NullV, UndefV} \cup {VO("Sample", 11, f) : f \in {g \in SampleFields : FieldGet(g, "y") # Str("")}}

SampleEquals(b) ==
    /\ vx # UndefV
    /\ VODone("equals", b, vx, heap, voEquals(vx, b), 0, NoFault)

\* x.copyWith(partial); the Results of earlier calls are no longer referenced
CopyWith(partial) ==
    /\ vx # UndefV
    /\ LET e == copyWith(<<>>, vx, partial, 12)
       IN  VODone("copyWith", RecordV(partial), e.self, e.heap, FALSE, e.ret, e.fault)

InitVO == IdleResult /\ IdleAsync /\ IdleChain /\ IdleAgg /\ IdleRest

NextVO ==
    \/ \E fields \in SampleFields : NewSample(fields)
    \/ \E b \in Others(vx) : SampleEquals(b)

SpecVO == InitVO /\ [][NextVO]_vars

NextCopy ==
    \/ \E fields \in SampleFields : NewSample(fields)
    \/ \E partial \in PartialFields : CopyWith(partial)

SpecCopy == InitVO /\ [][NextCopy]_vars

\* equality as the data model states it: the same properties, each
\* recursively equal
RECURSIVE DeepEq(_, _)
DeepEq(v, w) ==
    /\ v.kind = w.kind
    /\ CASE v.kind = "date" -> v.val = w.val
         [] v.kind \in {"vo", "record"} ->
               /\ FieldKeys(v.fields) = FieldKeys(w.fields)
               /\ \A k \in FieldKeys(v.fields) : DeepEq(FieldGet(v.fields, k), FieldGet(w.fields, k))
         [] v.kind = "array" ->
               /\ Len(v.items) = Len(w.items)
               /\ \A i \in 1..Len(v.items) :
                     IF v.items[i].kind = "vo" /\ w.items[i].kind = "vo"
                     THEN DeepEq(v.items[i], w.items[i])
                     ELSE StrictEq(v.items[i], w.items[i])
         [] OTHER -> v.val = w.val

\* C17: a.equals(b) is true if and only if every property of one is a
\* property of the other and recursively equal to it.
C17_StructuralEquality ==
    (vlast.op = "equals" /\ vlast.arg.kind = "vo") => (vlast.val <=> DeepEq(vx, vlast.arg))

\* the half of C17 the code keeps: deep-equal props compare equal
C17_DeepEqualAreEqual ==
    (vlast.op = "equals" /\ vlast.arg.kind = "vo" /\ DeepEq(vx, vlast.arg)) => vlast.val

\* { x: undefined } and { y: "p" } have no property in common and compare equal
C17_WitnessOtherKey ==
    /\ vlast.op = "equals"
    /\ vx.fields = << <<"x", UndefV>> >>
    /\ vlast.arg.fields = << <<"y", Str("p")>> >>
    /\ vlast.val

\* { x: new Date(t) } and { x: {} } compare equal
C17_WitnessDateAndRecord ==
    /\ vlast.op = "equals"
    /\ vx.fields = << <<"x", DateV(1, "t1")>> >>
    /\ vlast.arg.fields = << <<"x", RecordV(<<>>)>> >>
    /\ vlast.val

\* distinct instances with deep-equal nested dates and arrays of Tags
C17_WitnessDeepEqual ==
    /\ vlast.op = "equals"
    /\ vlast.arg.kind = "vo"
    /\ vlast.arg.oid # vx.oid
    /\ vlast.val
    /\ \E i \in 1..Len(vx.fields) :
          /\ vx.fields[i][2].kind = "array"
          /\ Len(vx.fields[i][2].items) > 0
          /\ vx.fields[i][2].items[1].kind = "vo"
          /\ vx.fields[i][2].items[1].oid # vlast.arg.fields[i][2].items[1].oid

\* the props of a value object, and the merge of props with a partial, as
\* maps from key to value
PropsOf(v) == [k \in FieldKeys(v.fields) |-> FieldGet(v.fields, k)]

MergedProps(x, p) ==
    [k \in FieldKeys(x.fields) \cup FieldKeys(p) |->
        IF k \in FieldKeys(p) THEN FieldGet(p, k) ELSE FieldGet(x.fields, k)]

PassesValidate(props) == ~("y" \in DOMAIN props /\ props["y"] = Str(""))

\* C18: x.copyWith(p) never throws; when the merge of x's props with p passes
\* validate it returns a success carrying a new instance of x's class whose
\* props are the merge, otherwise a failure; x itself is as it was.
C18_CopyWith ==
    vlast.op = "copyWith" =>
        /\ vlast.fault = NoFault
        /\ vlast.ret \in Refs(heap)
        /\ LET merged == MergedProps(vlast.pre, vlast.arg.fields)
               r == heap[vlast.ret]
           IN  IF PassesValidate(merged)
               THEN /\ r.isSuccess
                    /\ r.value.kind = "vo"
                    /\ r.value.val = vlast.pre.val
                    /\ r.value.oid # vlast.pre.oid
                    /\ PropsOf(r.value) = merged
               ELSE r.isFailure
        /\ vx = vlast.pre

\* a copy that overrides one property and adds another
C18_Witness ==
    /\ vlast.op = "copyWith"
    /\ vx.fields = << <<"y", Str("p")>> >>
    /\ vlast.arg.fields = << <<"x", Str("q")>>, <<"y", UndefV>> >>
    /\ heap[vlast.ret].isSuccess

\* a copy whose merge fails validation
C18_WitnessRejected ==
    /\ vlast.op = "copyWith"
    /\ vx.fields = << <<"x", DateV(1, "t1")>>, <<"y", Str("p")>> >>
    /\ vlast.arg.fields = << <<"y", Str("")>> >>
    /\ heap[vlast.ret].isFailure
    /\ heap[vlast.ret].error = YRequired

----------------------------------------------------------------------------
(* CPF: strings are sequences of one-character strings                       *)

CpfFree == 2        \* trailing digits of the 9-digit base that vary freely

DigitChars == <<"0", "1", "2", "3", "4", "5", "6", "7", "8", "9">>

\* \d
IsDigit(c) == \E i \in 1..Len(DigitChars) : DigitChars[i] = c

\* \s
Whitespace == {" ", "\t", "\n"}

\* NaN
NotANumber == -1

\* Number(c) of a one-character string: the digit's value, 0 for white
\* space, NaN for anything else
Number(c) ==
    IF IsDigit(c) THEN (CHOOSE i \in 1..Len(DigitChars) : DigitChars[i] = c) - 1
    ELSE IF c \in Whitespace THEN 0
    ELSE NotANumber

\* a NaN among the digits makes every sum it enters NaN, and no comparison
\* with NaN is true
AnyNaN(digits) == \E i \in 1..Len(digits) : digits[i] = NotANumber

\* s.replace(/\D/g, '')
StripNonDigits(s) == SelectSeq(s, IsDigit)

\* /^(\d)\1+$/.test(s)
AllSameDigit(s) == Len(s) >= 2 /\ IsDigit(s[1]) /\ \A i \in 2..Len(s) : s[i] = s[1]

\* for (let i = from; i < n; i++) sum += digits[i] * (top - i)
RECURSIVE SumLoop(_, _, _, _)
SumLoop(digits, i, n, top) ==
    IF i >= n THEN 0
    ELSE digits[i + 1] * (top - i) + SumLoop(digits, i + 1, n, top)

InvalidCPF == "Invalid CPF"

\* isValid without the test for known invalid patterns
CPF_isValid_noPattern(cpf) ==
    IF Len(cpf) # 11 THEN FALSE
    ELSE LET digits == [i \in 1..Len(cpf) |-> Number(cpf[i])]
             sum1 == SumLoop(digits, 0, 9, 10)
             check1 == IF sum1 % 11 < 2 THEN 0 ELSE 11 - (sum1 % 11)
             sum2 == SumLoop(digits, 0, 10, 11)
             check2 == IF sum2 % 11 < 2 THEN 0 ELSE 11 - (sum2 % 11)
         IN  IF AnyNaN(digits) THEN FALSE
             ELSE IF check1 # digits[10] THEN FALSE ELSE check2 = digits[11]

\* CPF.isValid(cpf)
CPF_isValid(cpf) ==
    IF Len(cpf) # 11 THEN FALSE
    ELSE IF AllSameDigit(cpf) THEN FALSE
    ELSE LET digits == [i \in 1..Len(cpf) |-> Number(cpf[i])]
             sum1 == SumLoop(digits, 0, 9, 10)
             check1 == IF sum1 % 11 < 2 THEN 0 ELSE 11 - (sum1 % 11)
             sum2 == SumLoop(digits, 0, 10, 11)
             check2 == IF sum2 % 11 < 2 THEN 0 ELSE 11 - (sum2 % 11)
         IN  IF AnyNaN(digits) THEN FALSE
             ELSE IF check1 # digits[10] THEN FALSE ELSE check2 = digits[11]

\* CPF.validate(props)
CPF_validate(h, props) ==
    IF ~CPF_isValid(props.value) THEN fail(h, InvalidCPF) ELSE ok(h, UndefV)

\* new CPF(props): the ValueObject constructor with CPF's validate
CPF_new(h, props) ==
    LET guardResult == CPF_validate(h, props)
    IN  IF guardResult.heap[guardResult.ret].isFailure
        THEN Throw(guardResult.heap, guardResult.heap[guardResult.ret].error)
        ELSE Eff(guardResult.heap, 0, [class |-> "CPF", props |-> props], NoFault, <<>>)

\* CPF.create(cpf)
CPF_create(h, cpf) ==
    LET cleaned == StripNonDigits(cpf)
    IN  IF ~CPF_isValid(cleaned) THEN fail(h, InvalidCPF)
        ELSE LET made == CPF_new(h, [value |-> cleaned])
             IN  IF made.fault # NoFault THEN made ELSE ok(made.heap, made.val)

\* the inputs: 9-digit bases whose last CpfFree digits vary, every pair of
\* check digits, and each such string plain, punctuated, cut, extended and
\* followed by a letter
CpfHeads == {<<"5", "2", "9", "9", "8", "2", "2", "4", "7">>,
             <<"0", "0", "0", "0", "0", "0", "0", "0", "0">>,
             <<"1", "1", "1", "1", "1", "1", "1", "1", "1">>}
FreeDigits == {"0", "1", "7"}
CpfBases ==
    CpfHeads \cup
    {SubSeq(head, 1, 9 - CpfFree) \o tail :
        head \in CpfHeads, tail \in [1..CpfFree -> FreeDigits]}
CpfDigitStrings == {base \o <<c1, c2>> : base \in CpfBases, c1, c2 \in {DigitChars[i] : i \in 1..10}}
CpfPunctuated(d) ==
    SubSeq(d, 1, 3) \o <<".">> \o SubSeq(d, 4, 6) \o <<".">> \o SubSeq(d, 7, 9) \o <<"-">>
    \o SubSeq(d, 10, 11)
CpfInputs ==
    {<<>>} \cup CpfDigitStrings
    \cup {CpfPunctuated(d) : d \in CpfDigitStrings}
    \cup {SubSeq(d, 1, 10) : d \in CpfDigitStrings}
    \cup {d \o <<"0">> : d \in CpfDigitStrings}
    \cup {<<" ">> \o d \o <<"a">> : d \in CpfDigitStrings}

IdleOthers ==
    /\ IdleResult /\ IdleAsync /\ IdleChain /\ IdleAgg
    /\ handle = NoHandle
    /\ ents = <<>> /\ elast = NoEntityOp
    /\ vx = UndefV /\ vlast = NoVOOp
    /\ IdleLate

IdDone(op, e) ==
    /\ heap' = e.heap
    /\ idout' = [op |-> op, ret |-> e.ret, fault |-> e.fault]
    /\ UNCHANGED <<last, asyncVars, chainVars, aggVars, aliasVars, eqVars, voVars, idin, lateVars>>

\* CPF.create(idin); the Results of earlier calls are no longer referenced
CPFCreate == IdDone("CPF.create", CPF_create(<<>>, idin))

InitCPF == IdleOthers /\ idin \in CpfInputs /\ idout = NoIdOut

NextCPF == CPFCreate

SpecCPF == InitCPF /\ [][NextCPF]_vars

\* the digits of s, in order
RECURSIVE DigitsOnly(_)
DigitsOnly(s) ==
    IF s = <<>> THEN <<>>
    ELSE IF Head(s) \in {"0", "1", "2", "3", "4", "5", "6", "7", "8", "9"}
         THEN <<Head(s)>> \o DigitsOnly(Tail(s))
         ELSE DigitsOnly(Tail(s))

DigitValue(c) ==
    CASE c = "0" -> 0 [] c = "1" -> 1 [] c = "2" -> 2 [] c = "3" -> 3 [] c = "4" -> 4
      [] c = "5" -> 5 [] c = "6" -> 6 [] c = "7" -> 7 [] c = "8" -> 8 [] c = "9" -> 9

\* the sum of the first Len(w) digits of d, each times its weight
RECURSIVE Weighted(_, _)
Weighted(d, w) ==
    IF w = <<>> THEN 0
    ELSE DigitValue(d[Len(w)]) * w[Len(w)] + Weighted(d, SubSeq(w, 1, Len(w) - 1))

\* 11 minus the sum mod 11, and 0 when the remainder is below 2
CheckDigit(sum) == IF sum % 11 \in {0, 1} THEN 0 ELSE 11 - (sum % 11)

AllIdentical(d) == \A i, j \in 1..Len(d) : d[i] = d[j]

CpfWeights1 == <<10, 9, 8, 7, 6, 5, 4, 3, 2>>
CpfWeights2 == <<11, 10, 9, 8, 7, 6, 5, 4, 3, 2>>

CpfFormula(d) ==
    /\ Len(d) = 11
    /\ ~AllIdentical(d)
    /\ DigitValue(d[10]) = CheckDigit(Weighted(d, CpfWeights1))
    /\ DigitValue(d[11]) = CheckDigit(Weighted(d, CpfWeights2))

\* C19: CPF.create(s) succeeds if and only if the digits of s are 11, not
\* all identical, and the last two are the check digits of the ones before
\* them; on success the instance's value is exactly those digits.
C19_CPFCreate ==
    idout.op = "CPF.create" =>
        /\ idout.fault = NoFault
        /\ idout.ret \in Refs(heap)
        /\ heap[idout.ret].isSuccess <=> CpfFormula(DigitsOnly(idin))
        /\ heap[idout.ret].isSuccess =>
              /\ heap[idout.ret].value.class = "CPF"
              /\ heap[idout.ret].value.props.value = DigitsOnly(idin)

\* 529.982.247-25 is accepted and normalised
C19_Witness ==
    /\ idout.op = "CPF.create"
    /\ idin = <<"5", "2", "9", ".", "9", "8", "2", ".", "2", "4", "7", "-", "2", "5">>
    /\ heap[idout.ret].isSuccess
    /\ heap[idout.ret].value.props.value =
          <<"5", "2", "9", "9", "8", "2", "2", "4", "7", "2", "5">>

\* 00000000000 satisfies the arithmetic and is rejected
C19_WitnessAllIdentical ==
    /\ idout.op = "CPF.create"
    /\ idin = <<"0", "0", "0", "0", "0", "0", "0", "0", "0", "0", "0">>
    /\ heap[idout.ret].isFailure
    /\ heap[idout.ret].error = InvalidCPF

\* a CPF whose first check digit comes from a remainder below 2
C19_WitnessRemainderBelowTwo ==
    /\ idout.op = "CPF.create"
    /\ Len(idin) = 11
    /\ heap[idout.ret].isSuccess
    /\ Weighted(idin, CpfWeights1) % 11 = 1

----------------------------------------------------------------------------
(* CNPJ                                                                      *)

CnpjFree == 2       \* trailing digits of the 12-digit base that vary freely

InvalidCNPJ == "Invalid CNPJ"

factors1 == <<5, 4, 3, 2, 9, 8, 7, 6, 5, 4, 3, 2>>
factors2 == <<6, 5, 4, 3, 2, 9, 8, 7, 6, 5, 4, 3, 2>>

\* for (let i = from; i < n; i++) sum += digits[i] * factors[i]
RECURSIVE FactorLoop(_, _, _, _)
FactorLoop(digits, factors, i, n) ==
    IF i >= n THEN 0
    ELSE digits[i + 1] * factors[i + 1] + FactorLoop(digits, factors, i + 1, n)

\* isValid that stops after the first check digit
CNPJ_isValid_firstCheckOnly(cnpj) ==
    IF Len(cnpj) # 14 THEN FALSE
    ELSE IF AllSameDigit(cnpj) THEN FALSE
    ELSE LET digits == [i \in 1..Len(cnpj) |-> Number(cnpj[i])]
             sum1 == FactorLoop(digits, factors1, 0, 12)
             check1 == IF sum1 % 11 < 2 THEN 0 ELSE 11 - (sum1 % 11)
         IN  IF AnyNaN(digits) THEN FALSE ELSE check1 = digits[13]

\* CNPJ.isValid(cnpj)
CNPJ_isValid(cnpj) ==
    IF Len(cnpj) # 14 THEN FALSE
    ELSE IF AllSameDigit(cnpj) THEN FALSE
    ELSE LET digits == [i \in 1..Len(cnpj) |-> Number(cnpj[i])]
             sum1 == FactorLoop(digits, factors1, 0, 12)
             check1 == IF sum1 % 11 < 2 THEN 0 ELSE 11 - (sum1 % 11)
             sum2 == FactorLoop(digits, factors2, 0, 13)
             check2 == IF sum2 % 11 < 2 THEN 0 ELSE 11 - (sum2 % 11)
         IN  IF AnyNaN(digits) THEN FALSE
             ELSE IF check1 # digits[13] THEN FALSE ELSE check2 = digits[14]

\* CNPJ.validate(props)
CNPJ_validate(h, props) ==
    IF ~CNPJ_isValid(props.value) THEN fail(h, InvalidCNPJ) ELSE ok(h, UndefV)

\* new CNPJ(props): the ValueObject constructor with CNPJ's validate
CNPJ_new(h, props) ==
    LET guardResult == CNPJ_validate(h, props)
    IN  IF guardResult.heap[guardResult.ret].isFailure
        THEN Throw(guardResult.heap, guardResult.heap[guardResult.ret].error)
        ELSE Eff(guardResult.heap, 0, [class |-> "CNPJ", props |-> props], NoFault, <<>>)

\* CNPJ.create(cnpj)
CNPJ_create(h, cnpj) ==
    LET cleaned == StripNonDigits(cnpj)
    IN  IF ~CNPJ_isValid(cleaned) THEN fail(h, InvalidCNPJ)
        ELSE LET made == CNPJ_new(h, [value |-> cleaned])
             IN  IF made.fault # NoFault THEN made ELSE ok(made.heap, made.val)

CnpjHeads == {<<"1", "1", "2", "2", "2", "3", "3", "3", "0", "0", "0", "1">>,
              <<"0", "0", "0", "0", "0", "0", "0", "0", "0", "0", "0", "0">>,
              <<"1", "1", "1", "1", "1", "1", "1", "1", "1", "1", "1", "1">>}
CnpjBases ==
    CnpjHeads \cup
    {SubSeq(head, 1, 12 - CnpjFree) \o tail :
        head \in CnpjHeads, tail \in [1..CnpjFree -> FreeDigits]}
CnpjDigitStrings ==
    {base \o <<c1, c2>> : base \in CnpjBases, c1, c2 \in {DigitChars[i] : i \in 1..10}}
CnpjPunctuated(d) ==
    SubSeq(d, 1, 2) \o <<".">> \o SubSeq(d, 3, 5) \o <<".">> \o SubSeq(d, 6, 8) \o <<"/">>
    \o SubSeq(d, 9, 12) \o <<"-">> \o SubSeq(d, 13, 14)
CnpjInputs ==
    {<<>>} \cup CnpjDigitStrings
    \cup {CnpjPunctuated(d) : d \in CnpjDigitStrings}
    \cup {SubSeq(d, 1, 13) : d \in CnpjDigitStrings}
    \cup {d \o <<"0">> : d \in CnpjDigitStrings}
    \cup {<<" ">> \o d \o <<"a">> : d \in CnpjDigitStrings}

\* CNPJ.create(idin); the Results of earlier calls are no longer referenced
CNPJCreate == IdDone("CNPJ.create", CNPJ_create(<<>>, idin))

InitCNPJ == IdleOthers /\ idin \in CnpjInputs /\ idout = NoIdOut

NextCNPJ == CNPJCreate

SpecCNPJ == InitCNPJ /\ [][NextCNPJ]_vars

CnpjWeights1 == <<5, 4, 3, 2, 9, 8, 7, 6, 5, 4, 3, 2>>
CnpjWeights2 == <<6, 5, 4, 3, 2, 9, 8, 7, 6, 5, 4, 3, 2>>

CnpjFormula(d) ==
    /\ Len(d) = 14
    /\ ~AllIdentical(d)
    /\ DigitValue(d[13]) = CheckDigit(Weighted(d, CnpjWeights1))
    /\ DigitValue(d[14]) = CheckDigit(Weighted(d, CnpjWeights2))

\* C20: CNPJ.create(s) succeeds if and only if the digits of s are 14, not
\* all identical, and the last two are the check digits of the ones before
\* them under the two weight lists.
C20_CNPJCreate ==
    idout.op = "CNPJ.create" =>
        /\ idout.fault = NoFault
        /\ idout.ret \in Refs(heap)
        /\ heap[idout.ret].isSuccess <=> CnpjFormula(DigitsOnly(idin))

\* 11222333000181 is accepted
C20_Witness ==
    /\ idout.op = "CNPJ.create"
    /\ idin = <<"1", "1", "2", "2", "2", "3", "3", "3", "0", "0", "0", "1", "8", "1">>
    /\ heap[idout.ret].isSuccess
    /\ heap[idout.ret].value.props.value = idin

\* the same string with its last digit changed is rejected
C20_WitnessLastDigit ==
    /\ idout.op = "CNPJ.create"
    /\ Len(idin) = 14
    /\ SubSeq(idin, 1, 13) = <<"1", "1", "2", "2", "2", "3", "3", "3", "0", "0", "0", "1", "8">>
    /\ idin[14] # "1"
    /\ heap[idout.ret].isFailure
    /\ heap[idout.ret].error = InvalidCNPJ

\* 11.222.333/0001-81 is accepted
C20_WitnessPunctuated ==
    /\ idout.op = "CNPJ.create"
    /\ Len(idin) = 18
    /\ heap[idout.ret].isSuccess
    /\ heap[idout.ret].value.props.value =
          <<"1", "1", "2", "2", "2", "3", "3", "3", "0", "0", "0", "1", "8", "1">>

----------------------------------------------------------------------------
(* The pending-event buffer between clears                                   *)

IsPrefix(s, t) == Len(s) <= Len(t) /\ SubSeq(t, 1, Len(s)) = s

\* s without the first occurrence of e
RECURSIVE WithoutFirst(_, _)
WithoutFirst(s, e) ==
    IF s = <<>> THEN <<>>
    ELSE IF Head(s) = e THEN Tail(s)
    ELSE <<Head(s)>> \o WithoutFirst(Tail(s), e)

Clears == {"clearEvents", "markAsCommitted"}

\* C27 as stated: a call that is not a clear leaves every recorded event in
\* place, so the buffer before the call is a prefix of the buffer after it.
C27_AppendOnly ==
    (alast.pre.alive /\ alast.op \notin Clears) => IsPrefix(alast.pre.events, agg.events)

\* C27: a call that is neither a clear nor removeDomainEvent leaves the buffer
\* before it as a prefix of the buffer after it; removeDomainEvent takes out
\* the first occurrence of its event and keeps the others in order.
C27_AppendOnlyButRemoval ==
    /\ (alast.pre.alive /\ alast.op \notin Clears \cup {"removeDomainEvent"}) =>
          IsPrefix(alast.pre.events, agg.events)
    /\ alast.op = "removeDomainEvent" =>
          agg.events = WithoutFirst(alast.pre.events, alast.arg)
    /\ alast.op \in Clears => agg.events = <<>>

\* an event added behind two recorded ones
C27_Witness ==
    /\ alast.op = "addDomainEvent"
    /\ Len(alast.pre.events) = 2
    /\ agg.events = alast.pre.events \o <<alast.arg>>

\* removeDomainEvent takes a recorded event out from before another
C27_WitnessRemoval ==
    /\ alast.op = "removeDomainEvent"
    /\ alast.pre.events = <<"e1", "e2">>
    /\ alast.arg = "e1"
    /\ agg.events = <<"e2">>

----------------------------------------------------------------------------
(* Email                                                                     *)

MaxEmailLen == 6    \* length of an input string drawn from EmailAlphabet

UpperCase == <<"A", "B", "C", "D", "E", "F", "G", "H", "I", "J", "K", "L", "M",
               "N", "O", "P", "Q", "R", "S", "T", "U", "V", "W", "X", "Y", "Z">>
LowerCase == <<"a", "b", "c", "d", "e", "f", "g", "h", "i", "j", "k", "l", "m",
               "n", "o", "p", "q", "r", "s", "t", "u", "v", "w", "x", "y", "z">>

\* s.toLowerCase()
toLowerCase(s) ==
    [i \in 1..Len(s) |->
        IF \E k \in 1..Len(UpperCase) : UpperCase[k] = s[i]
        THEN LowerCase[CHOOSE k \in 1..Len(UpperCase) : UpperCase[k] = s[i]]
        ELSE s[i]]

\* s.trim()
RECURSIVE trim(_)
trim(s) ==
    IF s = <<>> THEN s
    ELSE IF Head(s) \in Whitespace THEN trim(Tail(s))
    ELSE IF s[Len(s)] \in Whitespace THEN trim(SubSeq(s, 1, Len(s) - 1))
    ELSE s

\* [^\s@]
NotSpaceOrAt(c) == c \notin Whitespace /\ c # "@"

InvalidEmail == "Invalid email address"

\* isValid with a pattern that lets the dot stand anywhere in the domain
Email_isValid_anyDot(email) ==
    \E at \in 1..Len(email), dot \in 1..Len(email) :
        /\ email[at] = "@"
        /\ email[dot] = "."
        /\ 1 < at /\ at < dot
        /\ \A k \in 1..Len(email) : k # at => NotSpaceOrAt(email[k])

\* Email.isValid(email): /^[^\s@]+@[^\s@]+\.[^\s@]+$/.test(email)
Email_isValid(email) ==
    \E at \in 1..Len(email), dot \in 1..Len(email) :
        /\ email[at] = "@"
        /\ email[dot] = "."
        /\ 1 < at /\ at + 1 < dot /\ dot < Len(email)
        /\ \A k \in 1..(at - 1) : NotSpaceOrAt(email[k])
        /\ \A k \in (at + 1)..(dot - 1) : NotSpaceOrAt(email[k])
        /\ \A k \in (dot + 1)..Len(email) : NotSpaceOrAt(email[k])

\* Email.validate(props)
Email_validate(h, props) ==
    IF ~Email_isValid(props.value) THEN fail(h, InvalidEmail) ELSE ok(h, UndefV)

\* new Email(props): the ValueObject constructor with Email's validate
Email_new(h, props) ==
    LET guardResult == Email_validate(h, props)
    IN  IF guardResult.heap[guardResult.ret].isFailure
        THEN Throw(guardResult.heap, guardResult.heap[guardResult.ret].error)
        ELSE Eff(guardResult.heap, 0, [class |-> "Email", props |-> props], NoFault, <<>>)

\* Email.create(email)
Email_create(h, email) ==
    LET normalized == trim(toLowerCase(email))
    IN  IF ~Email_isValid(normalized) THEN fail(h, InvalidEmail)
        ELSE LET made == Email_new(h, [value |-> normalized])
             IN  IF made.fault # NoFault THEN made ELSE ok(made.heap, made.val)

EmailAlphabet == {"a", "B", "@", ".", " "}
UserAtExample ==
    <<" ", "U", "S", "E", "R", "@", "E", "x", "a", "m", "p", "l", "e", ".", "C", "O", "M", " ">>
EmailInputs ==
    {UserAtExample} \cup UNION {[1..n -> EmailAlphabet] : n \in 0..MaxEmailLen}

\* Email.create(idin); the Results of earlier calls are no longer referenced
EmailCreate == IdDone("Email.create", Email_create(<<>>, idin))

InitEmail == IdleOthers /\ idin \in EmailInputs /\ idout = NoIdOut

NextEmail == EmailCreate

SpecEmail == InitEmail /\ [][NextEmail]_vars

\* the part of n before its first '@' and the part after it
AtPositions(n) == {i \in 1..Len(n) : n[i] = "@"}
LocalPart(n) == SubSeq(n, 1, (CHOOSE i \in AtPositions(n) : TRUE) - 1)
DomainPart(n) == SubSeq(n, (CHOOSE i \in AtPositions(n) : TRUE) + 1, Len(n))

\* local@domain: no whitespace, exactly one '@', a non-empty local part
LocalAtDomain(n) ==
    /\ \A i \in 1..Len(n) : n[i] \notin {" ", "\t", "\n"}
    /\ Cardinality(AtPositions(n)) = 1
    /\ LocalPart(n) # <<>>

\* C21 as stated: Email.create(s) succeeds if and only if the lower-cased,
\* trimmed s is local@domain with a domain that contains a dot.
C21_DomainContainsDot ==
    idout.op = "Email.create" =>
        LET n == trim(toLowerCase(idin))
        IN  heap[idout.ret].isSuccess <=>
                (LocalAtDomain(n) /\ \E j \in 1..Len(DomainPart(n)) : DomainPart(n)[j] = ".")

\* C21: Email.create(s) succeeds if and only if the lower-cased, trimmed s is
\* local@domain with a domain that has a dot which is neither its first nor
\* its last character; on success the instance's value is that string.
C21_EmailCreate ==
    idout.op = "Email.create" =>
        LET n == trim(toLowerCase(idin))
        IN  /\ idout.fault = NoFault
            /\ heap[idout.ret].isSuccess <=>
                  (LocalAtDomain(n) /\ \E j \in 2..(Len(DomainPart(n)) - 1) : DomainPart(n)[j] = ".")
            /\ heap[idout.ret].isSuccess =>
                  /\ heap[idout.ret].value.class = "Email"
                  /\ heap[idout.ret].value.props.value = n

\* " USER@Example.COM " yields "user@example.com"
C21_Witness ==
    /\ idout.op = "Email.create"
    /\ idin = UserAtExample
    /\ heap[idout.ret].isSuccess
    /\ heap[idout.ret].value.props.value =
          <<"u", "s", "e", "r", "@", "e", "x", "a", "m", "p", "l", "e", ".", "c", "o", "m">>

\* "a@.a": the domain contains a dot and the address is rejected
C21_WitnessLeadingDot ==
    /\ idout.op = "Email.create"
    /\ idin = <<"a", "@", ".", "a">>
    /\ heap[idout.ret].isFailure
    /\ heap[idout.ret].error = InvalidEmail

----------------------------------------------------------------------------
(* Phone                                                                     *)

MaxPhoneDigits == 13    \* number of digits in an input string

InvalidPhone == "Invalid phone number"

\* isValid accepting 11 digits only
Phone_isValid_mobileOnly(phone) == Len(phone) = 11

\* Phone.isValid(phone)
Phone_isValid(phone) == Len(phone) = 10 \/ Len(phone) = 11

\* Phone.validate(props)
Phone_validate(h, props) ==
    IF ~Phone_isValid(props.value) THEN fail(h, InvalidPhone) ELSE ok(h, UndefV)

\* new Phone(props): the ValueObject constructor with Phone's validate
Phone_new(h, props) ==
    LET guardResult == Phone_validate(h, props)
    IN  IF guardResult.heap[guardResult.ret].isFailure
        THEN Throw(guardResult.heap, guardResult.heap[guardResult.ret].error)
        ELSE Eff(guardResult.heap, 0, [class |-> "Phone", props |-> props], NoFault, <<>>)

\* Phone.create(phone)
Phone_create(h, phone) ==
    LET cleaned == StripNonDigits(phone)
    IN  IF ~Phone_isValid(cleaned) THEN fail(h, InvalidPhone)
        ELSE LET made == Phone_new(h, [value |-> cleaned])
             IN  IF made.fault # NoFault THEN made ELSE ok(made.heap, made.val)

\* Phone.isWhatsApp() on x
isWhatsApp(x) == Len(x.props.value) = 11

\* the inputs: the two documented numbers, the leading digits of a long
\* number with its last two digits varied, each plain, punctuated, with a
\* letter after every digit, and wrapped in '+' and a blank
Mobile == <<"1", "1", "9", "8", "7", "6", "5", "4", "3", "2", "1">>
Landline == <<"1", "1", "2", "3", "4", "5", "6", "7", "8", "9">>
LongNumber == Mobile \o Landline
PhoneDigitStrings ==
    {Mobile, Landline}
    \cup {SubSeq(LongNumber, 1, n) : n \in 0..MaxPhoneDigits}
    \cup {SubSeq(LongNumber, 1, n - 2) \o tail :
            n \in 2..MaxPhoneDigits, tail \in [1..2 -> FreeDigits]}
PhonePunctuated(d) ==
    IF Len(d) < 6 THEN <<"(">> \o d \o <<")">>
    ELSE <<"(">> \o SubSeq(d, 1, 2) \o <<")", " ">> \o SubSeq(d, 3, Len(d) - 4) \o <<"-">>
         \o SubSeq(d, Len(d) - 3, Len(d))
RECURSIVE Spelled(_)
Spelled(d) == IF d = <<>> THEN <<>> ELSE <<Head(d), "a">> \o Spelled(Tail(d))
PhoneInputs ==
    PhoneDigitStrings
    \cup {PhonePunctuated(d) : d \in PhoneDigitStrings}
    \cup {Spelled(d) : d \in PhoneDigitStrings}
    \cup {<<"+">> \o d \o <<" ">> : d \in PhoneDigitStrings}

\* a call on the instance the factory returned
IdCall(op, val, text) ==
    /\ idout' = [op |-> op, ret |-> idout.ret, fault |-> NoFault, val |-> val, text |-> text,
                 made |-> heap[idout.ret].value]
    /\ UNCHANGED <<resultVars, asyncVars, chainVars, aggVars, aliasVars, eqVars, voVars, idin,
                   lateVars>>

\* the factory of class returned an instance
Created(class) ==
    /\ idout.op = class
    /\ idout.fault = NoFault
    /\ heap[idout.ret].isSuccess

\* Phone.create(idin); the Results of earlier calls are no longer referenced
PhoneCreate == IdDone("Phone.create", Phone_create(<<>>, idin))

\* x.isWhatsApp() on the created instance
PhoneIsWhatsApp ==
    /\ Created("Phone.create")
    /\ IdCall("Phone.isWhatsApp", isWhatsApp(heap[idout.ret].value), <<>>)

InitPhone == IdleOthers /\ idin \in PhoneInputs /\ idout = NoIdOut

NextPhone == PhoneCreate \/ PhoneIsWhatsApp

SpecPhone == InitPhone /\ [][NextPhone]_vars

\* C22: Phone.create(s) succeeds if and only if s has 10 or 11 digits, and
\* isWhatsApp() of the instance is true exactly when it has 11.
C22_PhoneCreate ==
    /\ idout.op = "Phone.create" =>
          /\ idout.fault = NoFault
          /\ heap[idout.ret].isSuccess <=> Len(DigitsOnly(idin)) \in {10, 11}
    /\ idout.op = "Phone.isWhatsApp" =>
          (idout.val <=> Len(DigitsOnly(idin)) = 11)

\* 11987654321 is a WhatsApp number
C22_Witness ==
    /\ idout.op = "Phone.isWhatsApp"
    /\ idin = <<"1", "1", "9", "8", "7", "6", "5", "4", "3", "2", "1">>
    /\ idout.val

\* 1123456789 is created and is not a WhatsApp number
C22_WitnessLandline ==
    /\ idout.op = "Phone.isWhatsApp"
    /\ idin = <<"1", "1", "2", "3", "4", "5", "6", "7", "8", "9">>
    /\ ~idout.val

\* a punctuated number of 12 digits is rejected
C22_WitnessTooLong ==
    /\ idout.op = "Phone.create"
    /\ Len(DigitsOnly(idin)) = 12
    /\ Len(idin) > 12
    /\ heap[idout.ret].isFailure

----------------------------------------------------------------------------
(* CEP, and the five factories on malformed input                            *)

MaxRawLen == 4      \* length of an input string drawn from RawAlphabet

InvalidCEP == "Invalid CEP"

\* CEP.isValid(cep)
CEP_isValid(cep) == Len(cep) = 8

\* CEP.validate(props)
CEP_validate(h, props) ==
    IF ~CEP_isValid(props.value) THEN fail(h, InvalidCEP) ELSE ok(h, UndefV)

\* new CEP(props): the ValueObject constructor with CEP's validate
CEP_new(h, props) ==
    LET guardResult == CEP_validate(h, props)
    IN  IF guardResult.heap[guardResult.ret].isFailure
        THEN Throw(guardResult.heap, guardResult.heap[guardResult.ret].error)
        ELSE Eff(guardResult.heap, 0, [class |-> "CEP", props |-> props], NoFault, <<>>)

\* create handing the cleaned string straight to the constructor
CEP_create_constructFirst(h, cep) ==
    LET cleaned == StripNonDigits(cep)
        made == CEP_new(h, [value |-> cleaned])
    IN  IF made.fault # NoFault THEN made ELSE ok(made.heap, made.val)

\* CEP.create(cep)
CEP_create(h, cep) ==
    LET cleaned == StripNonDigits(cep)
    IN  IF ~CEP_isValid(cleaned) THEN fail(h, InvalidCEP)
        ELSE LET made == CEP_new(h, [value |-> cleaned])
             IN  IF made.fault # NoFault THEN made ELSE ok(made.heap, made.val)

\* the inputs: every short string over a few characters, and each documented
\* identifier whole, cut, extended, with its last character replaced and
\* punctuated
RawAlphabet == {"1", "a", "@", ".", " "}
Paulista == <<"0", "1", "3", "1", "0", "1", "0", "0">>
ValidCpf == <<"5", "2", "9", "9", "8", "2", "2", "4", "7", "2", "5">>
ValidCnpj == <<"1", "1", "2", "2", "2", "3", "3", "3", "0", "0", "0", "1", "8", "1">>
Documented == {Paulista, ValidCpf, ValidCnpj, Mobile, Landline, UserAtExample}
Malformed(v) ==
    {v, SubSeq(v, 1, Len(v) - 1), v \o <<"0">>, <<" ">> \o v \o <<"a">>}
    \cup {SubSeq(v, 1, Len(v) - 1) \o <<c>> : c \in {"0", "1", "5", "9", "x"}}
FactoryInputs ==
    UNION {[1..n -> RawAlphabet] : n \in 0..MaxRawLen}
    \cup UNION {Malformed(v) : v \in Documented}
    \cup {CpfPunctuated(ValidCpf), CnpjPunctuated(ValidCnpj), PhonePunctuated(Mobile),
          SubSeq(Paulista, 1, 5) \o <<"-">> \o SubSeq(Paulista, 6, 8)}

\* CEP.create(idin); the Results of earlier calls are no longer referenced
CEPCreate == IdDone("CEP.create", CEP_create(<<>>, idin))

InitFactories == IdleOthers /\ idin \in FactoryInputs /\ idout = NoIdOut

NextFactories ==
    \/ EmailCreate
    \/ CPFCreate
    \/ CNPJCreate
    \/ CEPCreate
    \/ PhoneCreate

SpecFactories == InitFactories /\ [][NextFactories]_vars

Factories == {"Email.create", "CPF.create", "CNPJ.create", "CEP.create", "Phone.create"}

\* what each factory takes for a valid input
ValidInput(factory, s) ==
    CASE factory = "CPF.create" -> CpfFormula(DigitsOnly(s))
      [] factory = "CNPJ.create" -> CnpjFormula(DigitsOnly(s))
      [] factory = "CEP.create" -> Len(DigitsOnly(s)) = 8
      [] factory = "Phone.create" -> Len(DigitsOnly(s)) \in {10, 11}
      [] factory = "Email.create" ->
            LET n == trim(toLowerCase(s))
            IN  LocalAtDomain(n) /\ \E j \in 2..(Len(DomainPart(n)) - 1) : DomainPart(n)[j] = "."

\* C23: each of the five factories returns a Result and never throws: a
\* failure with a non-empty message when the input is invalid, a success
\* otherwise.
C23_FactoriesNeverThrow ==
    idout.op \in Factories =>
        /\ idout.fault = NoFault
        /\ idout.ret \in Refs(heap)
        /\ IF ValidInput(idout.op, idin)
           THEN heap[idout.ret].isSuccess /\ ~heap[idout.ret].isFailure
           ELSE /\ heap[idout.ret].isFailure /\ ~heap[idout.ret].isSuccess
                /\ heap[idout.ret].error \notin {"", Undefined}

\* the empty string is refused by CEP.create with a message
C23_Witness ==
    /\ idout.op = "CEP.create"
    /\ idin = <<>>
    /\ heap[idout.ret].isFailure
    /\ heap[idout.ret].error = InvalidCEP

\* a CPF with a wrong check digit is refused with a message
C23_WitnessCheckDigit ==
    /\ idout.op = "CPF.create"
    /\ idin = <<"5", "2", "9", "9", "8", "2", "2", "4", "7", "2", "9">>
    /\ heap[idout.ret].isFailure
    /\ heap[idout.ret].error = InvalidCPF

\* a non-numeric string is refused by Phone.create and by Email.create
C23_WitnessNonNumeric ==
    /\ idout.op \in {"Phone.create", "Email.create"}
    /\ idin = <<"a", "a", ".", "a">>
    /\ heap[idout.ret].isFailure

\* 01310-100 is accepted by CEP.create
C23_WitnessAccepted ==
    /\ idout.op = "CEP.create"
    /\ idin = <<"0", "1", "3", "1", "0", "-", "1", "0", "0">>
    /\ heap[idout.ret].isSuccess
    /\ heap[idout.ret].value.props.value = Paulista

----------------------------------------------------------------------------
(* Specification: predicate leaves and the AND, OR and NOT composites        *)

MaxComposites == 2      \* composites built on top of the two leaves

\* the candidates, named after what the two leaf predicates return for them
Candidates == {"tt", "tf", "ft", "ff"}
PredicateA == {"tt", "tf"}
PredicateB == {"tt", "ft"}

DefaultReason == "Specification not satisfied"

SpecObject(kind, predicate, reason, left, right, wrapped) ==
    [kind |-> kind, predicate |-> predicate, reason |-> reason,
     left |-> left, right |-> right, wrapped |-> wrapped]

\* new PredicateSpecification(predicate, reason)
PredicateSpecification(predicate, reason) == SpecObject("predicate", predicate, reason, 0, 0, 0)

\* new AndSpecification(left, right)
AndSpecification(left, right) == SpecObject("and", {}, Undefined, left, right, 0)

\* new OrSpecification(left, right)
OrSpecification(left, right) == SpecObject("or", {}, Undefined, left, right, 0)

\* new NotSpecification(wrapped)
NotSpecification(wrapped) == SpecObject("not", {}, Undefined, 0, 0, wrapped)

\* Specification.and(other) on self: the objects afterwards
and(sp, self, other) == Append(sp, AndSpecification(self, other))

\* Specification.or(other) on self
or(sp, self, other) == Append(sp, OrSpecification(self, other))

\* Specification.not() on self
not(sp, self) == Append(sp, NotSpecification(self))

\* the value of an evaluation and the isSatisfiedBy calls it made, in order
Evaluated(val, calls) == [val |-> val, calls |-> calls]

RECURSIVE isSatisfiedBy(_, _, _)

\* AND evaluating both operands before combining them
AndSpecification_isSatisfiedBy_eager(sp, s, candidate) ==
    LET l == isSatisfiedBy(sp, sp[s].left, candidate)
        r == isSatisfiedBy(sp, sp[s].right, candidate)
    IN  Evaluated(l.val /\ r.val, l.calls \o r.calls)

\* AndSpecification.isSatisfiedBy(candidate): left && right
AndSpecification_isSatisfiedBy(sp, s, candidate) ==
    LET l == isSatisfiedBy(sp, sp[s].left, candidate)
    IN  IF ~l.val THEN Evaluated(FALSE, l.calls)
        ELSE LET r == isSatisfiedBy(sp, sp[s].right, candidate)
             IN  Evaluated(r.val, l.calls \o r.calls)

\* OR that asks for both operands
OrSpecification_isSatisfiedBy_both(sp, s, candidate) ==
    LET l == isSatisfiedBy(sp, sp[s].left, candidate)
    IN  IF ~l.val THEN Evaluated(FALSE, l.calls)
        ELSE LET r == isSatisfiedBy(sp, sp[s].right, candidate)
             IN  Evaluated(r.val, l.calls \o r.calls)

\* OrSpecification.isSatisfiedBy(candidate): left || right
OrSpecification_isSatisfiedBy(sp, s, candidate) ==
    LET l == isSatisfiedBy(sp, sp[s].left, candidate)
    IN  IF l.val THEN Evaluated(TRUE, l.calls)
        ELSE LET r == isSatisfiedBy(sp, sp[s].right, candidate)
             IN  Evaluated(r.val, l.calls \o r.calls)

\* s.isSatisfiedBy(candidate), dispatched on the class of s; the call on s
\* itself comes first in the list of calls
isSatisfiedBy(sp, s, candidate) ==
    LET e == CASE sp[s].kind = "and" -> AndSpecification_isSatisfiedBy(sp, s, candidate)
               [] sp[s].kind = "or" -> OrSpecification_isSatisfiedBy(sp, s, candidate)
               [] sp[s].kind = "not" ->
                     LET w == isSatisfiedBy(sp, sp[s].wrapped, candidate)
                     IN  Evaluated(~w.val, w.calls)
               [] OTHER -> Evaluated(candidate \in sp[s].predicate, <<>>)
    IN  Evaluated(e.val, <<s>> \o e.calls)

\* the composites' templates with the operands swapped
RECURSIVE reasonForDissatisfaction_rightFirst(_, _)
reasonForDissatisfaction_rightFirst(sp, s) ==
    CASE sp[s].kind = "and" ->
            reasonForDissatisfaction_rightFirst(sp, sp[s].right) \o <<" AND ">>
            \o reasonForDissatisfaction_rightFirst(sp, sp[s].left)
      [] sp[s].kind = "or" ->
            reasonForDissatisfaction_rightFirst(sp, sp[s].right) \o <<" OR ">>
            \o reasonForDissatisfaction_rightFirst(sp, sp[s].left)
      [] sp[s].kind = "not" -> <<"NOT ">> \o reasonForDissatisfaction_rightFirst(sp, sp[s].wrapped)
      [] OTHER -> IF Truthy(sp[s].reason) THEN <<sp[s].reason>> ELSE <<DefaultReason>>

\* s.reasonForDissatisfaction(), dispatched on the class of s; a string is
\* the sequence of the pieces it was put together from
RECURSIVE reasonForDissatisfaction(_, _)
reasonForDissatisfaction(sp, s) ==
    CASE sp[s].kind = "and" ->
            reasonForDissatisfaction(sp, sp[s].left) \o <<" AND ">>
            \o reasonForDissatisfaction(sp, sp[s].right)
      [] sp[s].kind = "or" ->
            reasonForDissatisfaction(sp, sp[s].left) \o <<" OR ">>
            \o reasonForDissatisfaction(sp, sp[s].right)
      [] sp[s].kind = "not" -> <<"NOT ">> \o reasonForDissatisfaction(sp, sp[s].wrapped)
      [] OTHER -> IF Truthy(sp[s].reason) THEN <<sp[s].reason>> ELSE <<DefaultReason>>

SpecDone(op, self, arg, sp, ret, val, calls, text) ==
    /\ specs' = sp
    /\ slast' = [op |-> op, self |-> self, arg |-> arg, ret |-> ret, val |-> val,
                 calls |-> calls, text |-> text, pre |-> specs]
    /\ UNCHANGED <<resultVars, asyncVars, chainVars, aggVars, aliasVars, eqVars, voVars,
                   idVars, trio>>

\* the two leaves: new PredicateSpecification(a, ra), new PredicateSpecification(b, rb)
Leaves2 ==
    {<<PredicateSpecification(PredicateA, ra), PredicateSpecification(PredicateB, rb)>> :
        ra \in {"rA", Undefined}, rb \in {"rB", ""}}

Top == Len(specs)

\* a composite is built onto the specification built last
Onto(self, other) == self = Top \/ other = Top

And(self, other) ==
    /\ Len(specs) < 2 + MaxComposites
    /\ Onto(self, other)
    /\ SpecDone("and", self, other, and(specs, self, other), Len(specs) + 1, FALSE, <<>>, <<>>)

Or(self, other) ==
    /\ Len(specs) < 2 + MaxComposites
    /\ Onto(self, other)
    /\ SpecDone("or", self, other, or(specs, self, other), Len(specs) + 1, FALSE, <<>>, <<>>)

Not(self) ==
    /\ Len(specs) < 2 + MaxComposites
    /\ self = Top
    /\ SpecDone("not", self, 0, not(specs, self), Len(specs) + 1, FALSE, <<>>, <<>>)

IsSatisfiedBy(self, candidate) ==
    LET e == isSatisfiedBy(specs, self, candidate)
    IN  SpecDone("isSatisfiedBy", self, candidate, specs, 0, e.val, e.calls, <<>>)

ReasonForDissatisfaction(self) ==
    SpecDone("reasonForDissatisfaction", self, 0, specs, 0, FALSE, <<>>,
             reasonForDissatisfaction(specs, self))

InitSpecs ==
    /\ IdleResult /\ IdleAsync /\ IdleChain /\ IdleAgg
    /\ handle = NoHandle
    /\ ents = <<>> /\ elast = NoEntityOp
    /\ vx = UndefV /\ vlast = NoVOOp
    /\ idin = <<>> /\ idout = NoIdOut
    /\ specs \in Leaves2 /\ slast = NoSpecOp /\ trio = <<>>

NextSpecs ==
    \/ \E self, other \in 1..Len(specs) : And(self, other)
    \/ \E self, other \in 1..Len(specs) : Or(self, other)
    \/ \E self \in 1..Len(specs) : Not(self)
    \/ \E self \in 1..Len(specs), candidate \in Candidates : IsSatisfiedBy(self, candidate)
    \/ \E self \in 1..Len(specs) : ReasonForDissatisfaction(self)

SpecSpecs == InitSpecs /\ [][NextSpecs]_vars

\* the boolean function a specification stands for
RECURSIVE Holds(_, _, _)
Holds(sp, s, c) ==
    CASE sp[s].kind = "and" -> Holds(sp, sp[s].left, c) /\ Holds(sp, sp[s].right, c)
      [] sp[s].kind = "or" -> Holds(sp, sp[s].left, c) \/ Holds(sp, sp[s].right, c)
      [] sp[s].kind = "not" -> ~Holds(sp, sp[s].wrapped, c)
      [] OTHER -> c \in sp[s].predicate

\* C24: the evaluation of a composite, however nested, is the boolean
\* function of its operands' evaluations.
C24_BooleanAlgebra ==
    slast.op = "isSatisfiedBy" => (slast.val <=> Holds(specs, slast.self, slast.arg))

\* A.and(B).not() evaluated where A holds and B does not
C24_Witness ==
    /\ slast.op = "isSatisfiedBy"
    /\ specs[slast.self].kind = "not"
    /\ specs[specs[slast.self].wrapped].kind = "and"
    /\ specs[specs[slast.self].wrapped].left = 1
    /\ specs[specs[slast.self].wrapped].right = 2
    /\ slast.arg = "tf"
    /\ slast.val

\* an OR of a NOT, satisfied through its right operand only
C24_WitnessNested ==
    /\ slast.op = "isSatisfiedBy"
    /\ specs[slast.self].kind = "or"
    /\ specs[specs[slast.self].left].kind = "not"
    /\ ~Holds(specs, specs[slast.self].left, slast.arg)
    /\ slast.val

\* the objects s is built from, s included
RECURSIVE PartsOf(_, _)
PartsOf(sp, s) ==
    CASE sp[s].kind \in {"and", "or"} -> {s} \cup PartsOf(sp, sp[s].left) \cup PartsOf(sp, sp[s].right)
      [] sp[s].kind = "not" -> {s} \cup PartsOf(sp, sp[s].wrapped)
      [] OTHER -> {s}

\* the evaluations a left-to-right, short-circuiting evaluation makes
RECURSIVE LeftToRight(_, _, _)
LeftToRight(sp, s, c) ==
    <<s>> \o
    CASE sp[s].kind = "and" ->
            LeftToRight(sp, sp[s].left, c)
            \o (IF Holds(sp, sp[s].left, c) THEN LeftToRight(sp, sp[s].right, c) ELSE <<>>)
      [] sp[s].kind = "or" ->
            LeftToRight(sp, sp[s].left, c)
            \o (IF Holds(sp, sp[s].left, c) THEN <<>> ELSE LeftToRight(sp, sp[s].right, c))
      [] sp[s].kind = "not" -> LeftToRight(sp, sp[s].wrapped, c)
      [] OTHER -> <<>>

Evaluates(calls, s) == \E i \in 1..Len(calls) : calls[i] = s

\* C28: a composite evaluates its operands left to right and short-circuits:
\* an AND whose left operand fails and an OR whose left operand holds do not
\* evaluate the right operand, and the left operand is always evaluated
\* first; building a composite adds one new object and changes no other.
C28_ShortCircuit ==
    /\ slast.op = "isSatisfiedBy" =>
          /\ slast.calls = LeftToRight(specs, slast.self, slast.arg)
          /\ specs = slast.pre
          /\ specs[slast.self].kind \in {"and", "or"} =>
                LET left == specs[slast.self].left
                    right == specs[slast.self].right
                    skip == IF specs[slast.self].kind = "and"
                            THEN ~Holds(specs, left, slast.arg)
                            ELSE Holds(specs, left, slast.arg)
                IN  /\ slast.calls[2] = left
                    /\ (skip /\ right \notin PartsOf(specs, left)) =>
                          ~Evaluates(slast.calls, right)
                    /\ ~skip => Evaluates(slast.calls, right)
    /\ slast.op \in {"and", "or", "not"} =>
          /\ Len(specs) = Len(slast.pre) + 1
          /\ SubSeq(specs, 1, Len(slast.pre)) = slast.pre
          /\ slast.ret = Len(specs)
          /\ specs[slast.ret].kind = slast.op
          /\ IF slast.op = "not" THEN specs[slast.ret].wrapped = slast.self
             ELSE specs[slast.ret].left = slast.self /\ specs[slast.ret].right = slast.arg

\* A.and(B) on a candidate A rejects: A is evaluated, B is not
C28_Witness ==
    /\ slast.op = "isSatisfiedBy"
    /\ specs[slast.self].kind = "and"
    /\ specs[slast.self].left = 1
    /\ specs[slast.self].right = 2
    /\ slast.arg = "ft"
    /\ slast.calls = <<slast.self, 1>>

\* A.or(B) on a candidate A accepts: A is evaluated, B is not
C28_WitnessOr ==
    /\ slast.op = "isSatisfiedBy"
    /\ specs[slast.self].kind = "or"
    /\ specs[slast.self].left = 1
    /\ specs[slast.self].right = 2
    /\ slast.arg = "tf"
    /\ slast.calls = <<slast.self, 1>>

\* a composite built from two objects that are as they were
C28_WitnessBuilt ==
    /\ slast.op = "and"
    /\ Len(specs) = 4
    /\ SubSeq(specs, 1, 3) = slast.pre

Infix(l, word, r) == l \o <<word>> \o r

\* the explanation that mirrors the structure of s
RECURSIVE Rendered(_, _)
Rendered(sp, s) ==
    IF sp[s].kind = "and"
    THEN Infix(Rendered(sp, sp[s].left), " AND ", Rendered(sp, sp[s].right))
    ELSE IF sp[s].kind = "or"
    THEN Infix(Rendered(sp, sp[s].left), " OR ", Rendered(sp, sp[s].right))
    ELSE IF sp[s].kind = "not"
    THEN <<"NOT ">> \o Rendered(sp, sp[s].wrapped)
    ELSE IF sp[s].reason \in {Undefined, ""} THEN <<"Specification not satisfied">>
    ELSE <<sp[s].reason>>

\* C29: reasonForDissatisfaction() of a composite is "leftReason AND
\* rightReason", "leftReason OR rightReason" or "NOT wrappedReason",
\* recursively, computed from the operands as they are at the call.
C29_ReasonMirrorsStructure ==
    slast.op = "reasonForDissatisfaction" =>
        /\ slast.text = Rendered(specs, slast.self)
        /\ specs = slast.pre

\* the explanation of A.and(B).not(), whose leaves have their own reasons
C29_Witness ==
    /\ slast.op = "reasonForDissatisfaction"
    /\ slast.text = <<"NOT ", "rA", " AND ", "rB">>
    /\ ~Holds(specs, slast.self, "tt")

\* an OR over a leaf without a reason of its own
C29_WitnessDefault ==
    /\ slast.op = "reasonForDissatisfaction"
    /\ slast.text = <<"Specification not satisfied", " OR ", "rB">>

----------------------------------------------------------------------------
(* format() of the identifiers, and the factory on what format() renders     *)

\* value.slice(from, to)
Slice(value, from, to) ==
    SubSeq(value, from + 1, IF to < Len(value) THEN to ELSE Len(value))

\* CPF.format() on x
CPF_format(x) ==
    LET value == x.props.value
    IN  Slice(value, 0, 3) \o <<".">> \o Slice(value, 3, 6) \o <<".">> \o Slice(value, 6, 9)
        \o <<"-">> \o Slice(value, 9, 11)

\* CNPJ.format() on x
CNPJ_format(x) ==
    LET value == x.props.value
    IN  Slice(value, 0, 2) \o <<".">> \o Slice(value, 2, 5) \o <<".">> \o Slice(value, 5, 8)
        \o <<"/">> \o Slice(value, 8, 12) \o <<"-">> \o Slice(value, 12, 14)

\* CEP.format() on x
CEP_format(x) ==
    LET value == x.props.value
    IN  Slice(value, 0, 5) \o <<"-">> \o Slice(value, 5, 8)

\* format splitting every number after its seventh digit
Phone_format_mobileOnly(x) ==
    LET value == x.props.value
    IN  <<"(">> \o Slice(value, 0, 2) \o <<")", " ">> \o Slice(value, 2, 7) \o <<"-">>
        \o Slice(value, 7, 11)

\* Phone.format() on x
Phone_format(x) ==
    LET value == x.props.value
    IN  IF Len(value) = 11
        THEN <<"(">> \o Slice(value, 0, 2) \o <<")", " ">> \o Slice(value, 2, 7) \o <<"-">>
             \o Slice(value, 7, 11)
        ELSE IF Len(value) = 10
        THEN <<"(">> \o Slice(value, 0, 2) \o <<")", " ">> \o Slice(value, 2, 6) \o <<"-">>
             \o Slice(value, 6, 10)
        ELSE value

\* the inputs: the identifiers the factories accept, and CEPs of 7 to 9 digits
CepDigitStrings ==
    {SubSeq(Paulista, 1, 6) \o tail : tail \in [1..2 -> FreeDigits]}
    \cup {SubSeq(Paulista, 1, 7), Paulista \o <<"0">>}
FormatInputs ==
    {d \in CpfDigitStrings : CPF_isValid(d)}
    \cup {d \in CnpjDigitStrings : CNPJ_isValid(d)}
    \cup CepDigitStrings
    \cup PhoneDigitStrings

CPFFormat == Created("CPF.create") /\ IdCall("CPF.format", FALSE, CPF_format(heap[idout.ret].value))

CNPJFormat ==
    Created("CNPJ.create") /\ IdCall("CNPJ.format", FALSE, CNPJ_format(heap[idout.ret].value))

CEPFormat == Created("CEP.create") /\ IdCall("CEP.format", FALSE, CEP_format(heap[idout.ret].value))

PhoneFormat ==
    Created("Phone.create") /\ IdCall("Phone.format", FALSE, Phone_format(heap[idout.ret].value))

\* the factory called with the string format() returned; made stays the
\* instance that was formatted
Recreate(op, e) ==
    /\ heap' = e.heap
    /\ idout' = [op |-> op, ret |-> e.ret, fault |-> e.fault, val |-> FALSE,
                 text |-> idout.text, made |-> idout.made]
    /\ UNCHANGED <<last, asyncVars, chainVars, aggVars, aliasVars, eqVars, voVars, idin, lateVars>>

CPFRecreate == idout.op = "CPF.format" /\ Recreate("CPF.create(format)", CPF_create(<<>>, idout.text))

CNPJRecreate ==
    idout.op = "CNPJ.format" /\ Recreate("CNPJ.create(format)", CNPJ_create(<<>>, idout.text))

CEPRecreate == idout.op = "CEP.format" /\ Recreate("CEP.create(format)", CEP_create(<<>>, idout.text))

PhoneRecreate ==
    idout.op = "Phone.format" /\ Recreate("Phone.create(format)", Phone_create(<<>>, idout.text))

InitFormat == IdleOthers /\ idin \in FormatInputs /\ idout = NoIdOut

NextFormat ==
    \/ CPFCreate \/ CNPJCreate \/ CEPCreate \/ PhoneCreate
    \/ CPFFormat \/ CNPJFormat \/ CEPFormat \/ PhoneFormat
    \/ CPFRecreate \/ CNPJRecreate \/ CEPRecreate \/ PhoneRecreate

SpecFormat == InitFormat /\ [][NextFormat]_vars

\* text has the shape of pattern: a digit wherever pattern has N, and the
\* pattern's own character elsewhere
HasShape(text, pattern) ==
    /\ Len(text) = Len(pattern)
    /\ \A i \in 1..Len(pattern) :
          IF pattern[i] = "N" THEN text[i] \in {"0", "1", "2", "3", "4", "5", "6", "7", "8", "9"}
          ELSE text[i] = pattern[i]

CpfShape == <<"N", "N", "N", ".", "N", "N", "N", ".", "N", "N", "N", "-", "N", "N">>
CnpjShape ==
    <<"N", "N", ".", "N", "N", "N", ".", "N", "N", "N", "/", "N", "N", "N", "N", "-", "N", "N">>
CepShape == <<"N", "N", "N", "N", "N", "-", "N", "N", "N">>
LandlineShape == <<"(", "N", "N", ")", " ", "N", "N", "N", "N", "-", "N", "N", "N", "N">>
MobileShape == <<"(", "N", "N", ")", " ", "N", "N", "N", "N", "N", "-", "N", "N", "N", "N">>

\* C25: format() of a created CPF, CNPJ, CEP or Phone has the documented
\* shape, and the same factory accepts it with a value equal to the
\* instance's.
C25_FormatRoundTrip ==
    /\ idout.op = "CPF.format" => HasShape(idout.text, CpfShape)
    /\ idout.op = "CNPJ.format" => HasShape(idout.text, CnpjShape)
    /\ idout.op = "CEP.format" => HasShape(idout.text, CepShape)
    /\ idout.op = "Phone.format" =>
          HasShape(idout.text, IF Len(idout.made.props.value) = 10 THEN LandlineShape
                               ELSE MobileShape)
    /\ idout.op \in {"CPF.format", "CNPJ.format", "CEP.format", "Phone.format"} =>
          DigitsOnly(idout.text) = idout.made.props.value
    /\ idout.op \in {"CPF.create(format)", "CNPJ.create(format)", "CEP.create(format)",
                     "Phone.create(format)"} =>
          /\ idout.fault = NoFault
          /\ heap[idout.ret].isSuccess
          /\ heap[idout.ret].value.class = idout.made.class
          /\ heap[idout.ret].value.props.value = idout.made.props.value

\* (11) 2345-6789 is rendered for 1123456789 and accepted back
C25_Witness ==
    /\ idout.op = "Phone.create(format)"
    /\ idout.text = <<"(", "1", "1", ")", " ", "2", "3", "4", "5", "-", "6", "7", "8", "9">>
    /\ heap[idout.ret].isSuccess
    /\ heap[idout.ret].value.props.value = Landline

\* 529.982.247-25 is rendered and accepted back
C25_WitnessCpf ==
    /\ idout.op = "CPF.create(format)"
    /\ idout.text = CpfPunctuated(ValidCpf)
    /\ heap[idout.ret].value.props.value = ValidCpf

\* 11.222.333/0001-81 and 01310-100 are rendered
C25_WitnessCnpj == idout.op = "CNPJ.create(format)" /\ idout.made.props.value = ValidCnpj

C25_WitnessCep ==
    /\ idout.op = "CEP.format"
    /\ idout.text = <<"0", "1", "3", "1", "0", "-", "1", "0", "0">>

C25_WitnessMobile == idout.op = "Phone.create(format)" /\ Len(idout.text) = 15

----------------------------------------------------------------------------
(* copyWith on the identifiers                                               *)

\* new this.constructor(props) for an instance of class
IdNew(h, class, props) ==
    CASE class = "CPF" -> CPF_new(h, props)
      [] class = "CNPJ" -> CNPJ_new(h, props)
      [] class = "CEP" -> CEP_new(h, props)
      [] class = "Phone" -> Phone_new(h, props)
      [] class = "Email" -> Email_new(h, props)

\* ValueObject.copyWith(props) on an identifier x
IdCopyWith(h, x, props) ==
    LET newProps == Spread(x.props, props)
        made == IdNew(h, x.class, newProps)
    IN  IF made.fault = NoFault THEN ok(made.heap, made.val) ELSE fail(made.heap, made.fault)

\* the strings copyWith is handed as { value }
SpacedCpf == <<" ", "0", "0", "0", "0", "0", "0", "0", "1", "9", "1">>
TenLetters == <<"a", "b", "c", "d", "e", "f", "g", "h", "i", "j">>
CopyValues ==
    {<<>>, ValidCpf, SpacedCpf, CpfPunctuated(ValidCpf), ValidCnpj,
     <<" ">> \o SubSeq(ValidCnpj, 2, 14), Paulista, SubSeq(TenLetters, 1, 8),
     Landline, Mobile, TenLetters, <<"a", "@", "b", ".", "c">>, <<"A", "@", "b", ".", "C">>,
     <<" ", "a", "@", "b", ".", "c">>}
CopyPartials == {<<>>} \cup {[value |-> v] : v \in CopyValues}

\* an instance exists: the last call returned a success carrying it
Holding ==
    /\ idout.op \in {"Email.create", "CPF.create", "CNPJ.create", "CEP.create", "Phone.create",
                     "copyWith"}
    /\ idout.fault = NoFault
    /\ heap[idout.ret].isSuccess

\* x.copyWith(props) on the instance held; the instance a success carries is
\* the one held next
IdentifierCopyWith(props) ==
    /\ Holding
    /\ LET x == heap[idout.ret].value
           e == IdCopyWith(<<>>, x, props)
       IN  /\ heap' = e.heap
           /\ idout' = [op |-> "copyWith", ret |-> e.ret, fault |-> e.fault, val |-> FALSE,
                        text |-> props, made |-> x]
    /\ UNCHANGED <<last, asyncVars, chainVars, aggVars, aliasVars, eqVars, voVars, idin, lateVars>>

InitIdCopy ==
    /\ IdleOthers
    /\ idin \in Documented \cup {<<"0", "0", "0", "0", "0", "0", "0", "0", "1", "9", "1">>}
    /\ idout = NoIdOut

NextIdCopy ==
    \/ EmailCreate
    \/ CPFCreate
    \/ CNPJCreate
    \/ CEPCreate
    \/ PhoneCreate
    \/ \E props \in CopyPartials : IdentifierCopyWith(props)

SpecIdCopy == InitIdCopy /\ [][NextIdCopy]_vars

OnlyDigits(v) == \A i \in 1..Len(v) : v[i] \in {"0", "1", "2", "3", "4", "5", "6", "7", "8", "9"}

\* the string an identifier of the class wraps is normalized
Normalized(class, v) ==
    CASE class = "CPF" -> OnlyDigits(v) /\ Len(v) = 11
      [] class = "CNPJ" -> OnlyDigits(v) /\ Len(v) = 14
      [] class = "CEP" -> OnlyDigits(v) /\ Len(v) = 8
      [] class = "Phone" -> OnlyDigits(v) /\ Len(v) \in {10, 11}
      [] class = "Email" -> toLowerCase(v) = v /\ trim(v) = v

\* C26: every identifier that exists, from its factory or from copyWith on
\* an existing instance, wraps a normalized string.
C26_AlwaysNormalized ==
    Holding => Normalized(heap[idout.ret].value.class, heap[idout.ret].value.props.value)

\* the part of C26 that holds: what a factory returns is normalized
C26_CreatedNormalized ==
    (Holding /\ idout.op # "copyWith") =>
        Normalized(heap[idout.ret].value.class, heap[idout.ret].value.props.value)

\* a Phone of ten letters, made by copyWith
C26_WitnessPhone ==
    /\ idout.op = "copyWith"
    /\ Holding
    /\ heap[idout.ret].value.class = "Phone"
    /\ heap[idout.ret].value.props.value = TenLetters

\* a CPF with a blank in it, made by copyWith
C26_WitnessCpf ==
    /\ idout.op = "copyWith"
    /\ Holding
    /\ heap[idout.ret].value.class = "CPF"
    /\ heap[idout.ret].value.props.value = SpacedCpf

\* an Email in upper case, made by copyWith
C26_WitnessEmail ==
    /\ idout.op = "copyWith"
    /\ Holding
    /\ heap[idout.ret].value.class = "Email"
    /\ heap[idout.ret].value.props.value = <<"A", "@", "b", ".", "C">>

\* copyWith refuses a punctuated CPF the factory accepts
C26_WitnessRefused ==
    /\ idout.op = "copyWith"
    /\ idout.text = [value |-> CpfPunctuated(ValidCpf)]
    /\ idout.made.class = "CPF"
    /\ heap[idout.ret].isFailure
    /\ heap[idout.ret].error = InvalidCPF

----------------------------------------------------------------------------
(* ValueObject.equals as a relation over three value objects                 *)

\* the props of the three Samples: primitives, dates, a plain record, arrays
\* and a nested value object under x, a string under y
TrioFields ==
    {<< <<"x", v>> >> :
        v \in {UndefV, Str("p"), NaNV, DateV(1, "t1"), DateV(3, "t2"), RecordV(<<>>),
               ArrayV(<<>>), ArrayV(<<DateV(1, "t1")>>), VO("Tag", 4, << <<"value", Str("p")>> >>)}}
    \cup {<< <<"y", Str("p")>> >>}

\* trio[self].equals(trio[other])
TrioEquals(self, other) ==
    /\ vlast' = [op |-> "equals", arg |-> trio[other], pre |-> trio[self],
                 val |-> voEquals(trio[self], trio[other]), ret |-> 0, fault |-> NoFault,
                 self |-> self, other |-> other]
    /\ UNCHANGED <<resultVars, asyncVars, chainVars, aggVars, aliasVars, eqVars, vx, idVars,
                   specs, slast, trio>>

InitTrio ==
    /\ IdleResult /\ IdleAsync /\ IdleChain /\ IdleAgg
    /\ handle = NoHandle
    /\ ents = <<>> /\ elast = NoEntityOp
    /\ vx = UndefV /\ vlast = NoVOOp
    /\ idin = <<>> /\ idout = NoIdOut
    /\ specs = <<>> /\ slast = NoSpecOp
    /\ trio \in {<<VO("Sample", 21, f), VO("Sample", 22, g), VO("Sample", 23, h)>> :
                    f \in TrioFields, g \in TrioFields, h \in TrioFields}

NextTrio == \E self, other \in 1..3 : TrioEquals(self, other)

SpecTrio == InitTrio /\ [][NextTrio]_vars

\* C30: equals is reflexive, symmetric and transitive.
C30_Equivalence ==
    vlast.op = "equals" =>
        LET x == trio[vlast.self]
            y == trio[vlast.other]
        IN  /\ vlast.self = vlast.other => vlast.val
            /\ vlast.val => voEquals(y, x)
            /\ \A k \in 1..3 : (vlast.val /\ voEquals(y, trio[k])) => voEquals(x, trio[k])

\* x.equals(x) is false for an x that holds NaN
C30_WitnessNotReflexive ==
    /\ vlast.op = "equals"
    /\ vlast.self = vlast.other
    /\ trio[vlast.self].fields = << <<"x", NaNV>> >>
    /\ ~vlast.val

\* { x: undefined } equals { y: "p" } and not the other way round
C30_WitnessNotSymmetric ==
    /\ vlast.op = "equals"
    /\ trio[vlast.self].fields = << <<"x", UndefV>> >>
    /\ trio[vlast.other].fields = << <<"y", Str("p")>> >>
    /\ vlast.val
    /\ ~voEquals(trio[vlast.other], trio[vlast.self])

\* a date equals an empty record, the record equals a date of another
\* instant, and the two dates are not equal
C30_WitnessNotTransitive ==
    /\ vlast.op = "equals"
    /\ trio[1].fields = << <<"x", DateV(1, "t1")>> >>
    /\ trio[2].fields = << <<"x", RecordV(<<>>)>> >>
    /\ trio[3].fields = << <<"x", DateV(3, "t2")>> >>
    /\ vlast.self = 1 /\ vlast.other = 3
    /\ ~vlast.val
    /\ voEquals(trio[1], trio[2])
    /\ voEquals(trio[2], trio[3])

====
